---- MODULE Spec2Model ----
(***************************************************************************)
(* A model of patchtools' patch text engine (src/patchtools/patch.py) and  *)
(* of the export front end that drives it (src/patchtools/exportpatch.py). *)
(*                                                                         *)
(* Text is modelled as Python sees it: a string is a sequence of           *)
(* one-character strings, a payload is one string with "\n" in it, and the *)
(* regular expressions of the source are operators over those characters.  *)
(***************************************************************************)
EXTENDS Integers, Sequences, FiniteSets, TLC

VARIABLES
    message,    \* Patch.message: [hdrs: Seq([name, value]), payload: string]
    config,     \* patchtools.config.config: [name, email, emails]
    call,       \* the call made last: its name, arguments, the message before it, its outcome
    ncalls,     \* number of calls made on this Patch so far
    world,      \* outside the process: the files written, and what went to stdout and stderr
    patch       \* the Patch object's other fields: [commit, force, repo, repourl, in_mainline]

vars == <<message, config, call, ncalls, world, patch>>

\* the characters of a string literal
Chars(s) == [i \in 1..Len(s) |-> SubSeq(s, i, i)]

-----------------------------------------------------------------------------
(* Characters and strings *)

NL == "\n"
SP == " "

Digits == {"0","1","2","3","4","5","6","7","8","9"}
HexLower == Digits \cup {"a","b","c","d","e","f"}
\* what Python's \s and str.rstrip() take for whitespace, within the model's alphabet
WhiteSpace == {" ", "\t", "\n", "\f"}

StartsWithAt(s, i, p) ==
    /\ i >= 1
    /\ i + Len(p) - 1 <= Len(s)
    /\ \A k \in 1..Len(p) : s[i + k - 1] = p[k]

StartsWith(s, p) == StartsWithAt(s, 1, p)

\* Python's `sub in s` on strings
Contains(sub, s) == \E i \in 1..(Len(s) + 1) : StartsWithAt(s, i, sub)

\* s[i:] with a 1-based index
From(s, i) == SubSeq(s, i, Len(s))

\* str.rstrip()
RECURSIVE rstrip(_)
rstrip(s) ==
    IF s # <<>> /\ s[Len(s)] \in WhiteSpace THEN rstrip(SubSeq(s, 1, Len(s) - 1)) ELSE s

\* the elements of a finite set of integers, in increasing order
RECURSIVE Sorted(_)
Sorted(S) ==
    IF S = {} THEN <<>>
    ELSE LET lo == CHOOSE x \in S : \A y \in S : x <= y
         IN  <<lo>> \o Sorted(S \ {lo})

\* the lines of a text that ends each line with a newline, as the email parser and
\* the diffstat tool read it: a final newline opens no further line
TextLines(s) ==
    LET ends == Sorted({i \in 1..Len(s) : s[i] = NL}
                         \cup (IF s # <<>> /\ s[Len(s)] # NL THEN {Len(s) + 1} ELSE {}))
    IN  [k \in 1..Len(ends) |->
            SubSeq(s, IF k = 1 THEN 1 ELSE ends[k - 1] + 1, ends[k] - 1)]

\* the characters str.splitlines() ends a line at, within the model's alphabet: the
\* newline and the form feed
LineBreaks == {NL, "\f"}

\* str.splitlines(): every line ends at a line boundary or at the end of the text,
\* the boundary is not part of the line, and a final boundary opens no further line
splitlines(s) ==
    LET ends == Sorted({i \in 1..Len(s) : s[i] \in LineBreaks}
                         \cup (IF s # <<>> /\ s[Len(s)] \notin LineBreaks
                               THEN {Len(s) + 1} ELSE {}))
    IN  [k \in 1..Len(ends) |->
            SubSeq(s, IF k = 1 THEN 1 ELSE ends[k - 1] + 1, ends[k] - 1)]

\* the text `line + '\n'` for each line, concatenated
RECURSIVE Unlines(_)
Unlines(ls) == IF ls = <<>> THEN <<>> ELSE Head(ls) \o <<NL>> \o Unlines(Tail(ls))

\* sep.join(parts)
RECURSIVE join(_, _)
join(sep, parts) ==
    IF parts = <<>> THEN <<>>
    ELSE IF Len(parts) = 1 THEN parts[1]
    ELSE parts[1] \o sep \o join(sep, Tail(parts))

\* str.split(): the maximal runs of non-whitespace
split(s) ==
    LET isWord(i) == i >= 1 /\ i <= Len(s) /\ s[i] \notin WhiteSpace
        firsts == Sorted({i \in 1..Len(s) : isWord(i) /\ ~isWord(i - 1)})
        lasts == Sorted({i \in 1..Len(s) : isWord(i) /\ ~isWord(i + 1)})
    IN  [k \in 1..Len(firsts) |-> SubSeq(s, firsts[k], lasts[k])]

\* str(n) for a natural number
RECURSIVE Dec(_)
Dec(n) ==
    LET d == <<"0","1","2","3","4","5","6","7","8","9">>
    IN  IF n < 10 THEN <<d[n + 1]>> ELSE Dec(n \div 10) \o <<d[(n % 10) + 1]>>

RECURSIVE Repeat(_, _)
Repeat(c, n) == IF n = 0 THEN <<>> ELSE <<c>> \o Repeat(c, n - 1)

-----------------------------------------------------------------------------
(* The text classifier: _PATCH_START_RE, Patch.header, Patch.body *)

\* ^(---|\*\*\*|Index:)[ \t][^ \t]|^diff -|^index [0-9a-f]{7}
PATCH_START_RE(line) ==
    \/ \E p \in {<<"-","-","-">>, <<"*","*","*">>, <<"I","n","d","e","x",":">>} :
          /\ StartsWith(line, p)
          /\ Len(line) >= Len(p) + 2
          /\ line[Len(p) + 1] \in {" ", "\t"}
          /\ line[Len(p) + 2] \notin {" ", "\t"}
    \/ StartsWith(line, <<"d","i","f","f"," ","-">>)
    \/ /\ StartsWith(line, <<"i","n","d","e","x"," ">>)
       /\ Len(line) >= 13
       /\ \A k \in 7..13 : line[k] \in HexLower

\* index of the first diff-start line of ls, or Len(ls) + 1
RECURSIVE FirstStart(_, _)
FirstStart(ls, i) ==
    IF i > Len(ls) THEN i ELSE IF PATCH_START_RE(ls[i]) THEN i ELSE FirstStart(ls, i + 1)

\* a plausible slip: the `continue` left out, so that the diff-start line is added
\* to the header before the loop ends
header_ThroughStart(payload) ==
    LET ls == splitlines(payload)
        first == FirstStart(ls, 1)
    IN  Unlines(SubSeq(ls, 1, IF first > Len(ls) THEN Len(ls) ELSE first))

header(payload) ==
    LET ls == splitlines(payload)
    IN  Unlines(SubSeq(ls, 1, FirstStart(ls, 1) - 1))

body(payload) ==
    LET ls == splitlines(payload)
    IN  Unlines(SubSeq(ls, FirstStart(ls, 1), Len(ls)))

-----------------------------------------------------------------------------
(* The message envelope: email.message.Message as the source uses it *)

HasHeader(m, name) == \E i \in 1..Len(m.hdrs) : m.hdrs[i].name = name

FirstIdx(m, name) == CHOOSE i \in 1..Len(m.hdrs) :
    m.hdrs[i].name = name /\ \A j \in 1..(i - 1) : m.hdrs[j].name # name

\* message[name], for a header that is present
GetHeader(m, name) == m.hdrs[FirstIdx(m, name)].value

\* message.replace_header(name, value): the first such field, in place
replace_header(m, name, value) ==
    [m EXCEPT !.hdrs[FirstIdx(m, name)].value = value]

\* message.add_header(name, value) and message[name] = value: a new last field
add_header(m, name, value) ==
    [m EXCEPT !.hdrs = Append(@, [name |-> name, value |-> value])]

set_payload(m, text) == [m EXCEPT !.payload = text]

HeaderCount(m, name) == Cardinality({i \in 1..Len(m.hdrs) : m.hdrs[i].name = name})

-----------------------------------------------------------------------------
(* The diffstat collaborator: patchops.get_diffstat runs `diffstat -p1` *)

\* ^\+\+\+ [^/]+/(\S+): group 1, or the empty string when the line does not match
RECURSIVE FirstSlash(_, _)
FirstSlash(line, i) ==
    IF i > Len(line) THEN 0 ELSE IF line[i] = "/" THEN i ELSE FirstSlash(line, i + 1)

RECURSIVE NonSpaceRun(_, _)
NonSpaceRun(line, i) ==
    IF i > Len(line) \/ line[i] \in WhiteSpace THEN <<>>
    ELSE <<line[i]>> \o NonSpaceRun(line, i + 1)

PlusFilename(line) ==
    IF ~StartsWith(line, <<"+","+","+"," ">>) THEN <<>>
    ELSE LET k == FirstSlash(line, 5)
         IN  IF k < 6 THEN <<>> ELSE NonSpaceRun(line, k + 1)

\* per file of the diff: its name and the numbers of added and removed lines
RECURSIVE StatAcc(_, _, _)
StatAcc(ls, i, acc) ==
    IF i > Len(ls) THEN acc
    ELSE LET line == ls[i]
             f == PlusFilename(line)
             n == Len(acc)
         IN  IF f # <<>> THEN StatAcc(ls, i + 1, Append(acc, [file |-> f, add |-> 0, del |-> 0]))
             ELSE IF n = 0 \/ PATCH_START_RE(line) THEN StatAcc(ls, i + 1, acc)
             ELSE IF StartsWith(line, <<"+">>)
                  THEN StatAcc(ls, i + 1, [acc EXCEPT ![n].add = @ + 1])
             ELSE IF StartsWith(line, <<"-">>)
                  THEN StatAcc(ls, i + 1, [acc EXCEPT ![n].del = @ + 1])
             ELSE StatAcc(ls, i + 1, acc)

RECURSIVE SumField(_, _)
SumField(stats, fld) ==
    IF stats = <<>> THEN 0 ELSE Head(stats)[fld] + SumField(Tail(stats), fld)

Plural(n) == IF n = 1 THEN <<>> ELSE <<"s">>

StatLine(st) ==
    <<SP>> \o st.file \o <<" ","|"," ">> \o Dec(st.add + st.del) \o <<SP>>
        \o Repeat("+", st.add) \o Repeat("-", st.del)

\* the last line of diffstat's table: n files, a lines added, d lines removed
StatSummary(n, a, d) ==
    <<SP>> \o Dec(n) \o <<" ","f","i","l","e">> \o Plural(n)
        \o <<" ","c","h","a","n","g","e","d">>
        \o (IF a = 0 THEN <<>>
            ELSE <<",", " ">> \o Dec(a) \o <<" ","i","n","s","e","r","t","i","o","n">>
                     \o Plural(a) \o <<"(","+",")">>)
        \o (IF d = 0 THEN <<>>
            ELSE <<",", " ">> \o Dec(d) \o <<" ","d","e","l","e","t","i","o","n">>
                     \o Plural(d) \o <<"(","-",")">>)

StatTable(stats) ==
    Unlines([i \in 1..Len(stats) |-> StatLine(stats[i])]
                \o << StatSummary(Len(stats), SumField(stats, "add"), SumField(stats, "del")) >>)

get_diffstat(text) == StatTable(StatAcc(TextLines(text), 1, <<>>))

-----------------------------------------------------------------------------
(* The diffstat manager: Patch.add_diffstat, Patch.update_diffstat *)

\* re.search(r'[0-9]+ files? changed, [0-9]+ insertion', line)
RECURSIVE SkipDigits(_, _)
SkipDigits(line, i) ==
    IF i <= Len(line) /\ line[i] \in Digits THEN SkipDigits(line, i + 1) ELSE i

HasStatSummary(line) ==
    \E i \in 1..Len(line) :
        /\ line[i] \in Digits
        /\ \E p \in {<<" ","f","i","l","e">>, <<" ","f","i","l","e","s">>} :
              LET q == p \o <<" ","c","h","a","n","g","e","d",","," ">>
                  j == i + 1 + Len(q)
              IN  /\ StartsWithAt(line, i + 1, q)
                  /\ j <= Len(line)
                  /\ line[j] \in Digits
                  /\ StartsWithAt(line, SkipDigits(line, j),
                                  <<" ","i","n","s","e","r","t","i","o","n">>)

\* re.match(r'^---$', line)
IsDashes(line) == line = <<"-","-","-">>

\* a plausible slip: the separator written whatever the header holds
need_sep_always(hl) == TRUE

\* need_sep after the loop over the header's lines (`switched` is never set)
need_sep(hl) == ~\E i \in DOMAIN hl : IsDashes(hl[i])

add_diffstat(m) ==
    LET \* hd: self.header(); bd: self.body()
        diffstat(hd, bd) ==
            (IF need_sep(splitlines(hd)) THEN <<"-","-","-",NL>> ELSE <<NL>>)
                \o get_diffstat(bd) \o <<NL>>
        Added(hd, bd) == set_payload(m, rstrip(hd) \o <<NL>> \o diffstat(hd, bd) \o bd)
        Summed(pl) == \E i \in DOMAIN pl : HasStatSummary(pl[i])
    IN  IF Summed(splitlines(m.payload))
        THEN m
        ELSE Added(header(m.payload), body(m.payload))

\* re.search(r'#? .* \| ', line)
IsStatFileLine(line) ==
    \E i \in 1..Len(line) :
        /\ line[i] = SP
        /\ \E j \in (i + 1)..Len(line) : StartsWithAt(line, j, <<" ","|"," ">>)

\* re.match(r'#? .* files? changed(, .* insertions?\(\+\))?(, .* deletions?\(-\))?', line)
IsStatSummaryLine(line) ==
    \E k \in {1, 2} :
        /\ k = 2 => StartsWith(line, <<"#">>)
        /\ k <= Len(line)
        /\ line[k] = SP
        /\ \E j \in (k + 1)..Len(line) :
              \/ StartsWithAt(line, j, <<" ","f","i","l","e"," ","c","h","a","n","g","e","d">>)
              \/ StartsWithAt(line, j, <<" ","f","i","l","e","s"," ","c","h","a","n","g","e","d">>)

RECURSIVE StripStat(_, _, _, _)
StripStat(ls, i, text, eat) ==
    IF i > Len(ls) THEN text
    ELSE IF IsStatFileLine(ls[i]) THEN StripStat(ls, i + 1, text, eat \o ls[i] \o <<NL>>)
    ELSE IF IsStatSummaryLine(ls[i]) THEN StripStat(ls, i + 1, text, <<>>)
    ELSE StripStat(ls, i + 1, text \o eat \o ls[i] \o <<NL>>, <<>>)

\* the message update_diffstat hands to add_diffstat: the old diffstat taken out
strip_diffstat(m) ==
    set_payload(m, StripStat(splitlines(header(m.payload)), 1, <<>>, <<>>)
                       \o <<NL>> \o body(m.payload))

update_diffstat(m) == add_diffstat(strip_diffstat(m))

-----------------------------------------------------------------------------
(* The file filter: Patch.file_in_path, Patch.filter *)

InList(x, xs) == \E i \in 1..Len(xs) : xs[i] = x

file_in_path(filename, paths) ==
    \/ InList(filename, paths)
    \/ \E i \in 1..Len(paths) :
          LET f == paths[i]
          IN  /\ f # <<>>
              /\ f[Len(f)] = "/"
              /\ Contains(f, filename)

Xor(a, b) == (a /\ ~b) \/ (~a /\ b)

\* the loop of Patch.filter over the body's lines; st is the loop's local state
RECURSIVE FilterLoop(_, _, _, _, _)
FilterLoop(ls, i, st, files, exclude) ==
    IF i > Len(ls) THEN st
    ELSE LET line == ls[i]
             atStart == PATCH_START_RE(line)
             keep == Xor(exclude, file_in_path(st.filename, files))
             s1 == IF ~atStart THEN st
                   ELSE IF st.filename = <<>> THEN [st EXCEPT !.chunk = <<>>]
                   ELSE [body |-> IF keep THEN st.body \o st.chunk \o <<NL>> ELSE st.body,
                         chunk |-> <<>>,
                         filename |-> <<>>,
                         partial |-> IF keep THEN st.partial ELSE TRUE]
             s2 == [s1 EXCEPT !.chunk = @ \o line \o <<NL>>]
             f == PlusFilename(line)
             s3 == IF f # <<>> THEN [s2 EXCEPT !.filename = f] ELSE s2
         IN  FilterLoop(ls, i + 1, s3, files, exclude)

\* ' !'.join(['', *files])[1:] if exclude else ' '.join(files)
filtered_header(files, exclude) ==
    IF exclude THEN Tail(join(<<" ","!">>, <<<<>>>> \o files)) ELSE join(<<SP>>, files)

\* a plausible slip: the emptiness test made on the whole payload, which still has
\* its header region
is_empty_payload(m, newbody) == header(m.payload) \o newbody = <<>>

\* `if not body: is_empty = True`
is_empty(m, newbody) == newbody = <<>>

\* Patch.filter once its loop is over, st being the loop's state at its end with
\* the last section still in st.chunk: [message, raised]
FilterEnd(m, st, files, exclude) ==
    LET newbody == IF /\ st.filename # <<>>
                      /\ Xor(exclude, file_in_path(st.filename, files))
                   THEN st.body \o st.chunk \o <<NL>>
                   ELSE st.body
        \* m1: the payload rebuilt
        m1 == set_payload(m, header(m.payload) \o newbody)
        \* m2: m1 with '(partial)' on its Git-commit; fh: what Patch-filtered is to say
        Filtered(m2, fh) ==
            IF HasHeader(m2, "Patch-filtered")
            THEN replace_header(m2, "Patch-filtered",
                                GetHeader(m2, "Patch-filtered") \o <<SP>> \o fh)
            ELSE add_header(m2, "Patch-filtered", fh)
        Partial(m0, commit) ==
            Filtered(IF Contains(<<"(","p","a","r","t","i","a","l",")">>, commit) THEN m0
                     ELSE replace_header(m0, "Git-commit",
                                         commit \o <<" ","(","p","a","r","t","i","a","l",")">>),
                     filtered_header(files, exclude))
        Marked(m0) == IF st.partial THEN Partial(m0, GetHeader(m0, "Git-commit")) ELSE m0
    IN  IF st.partial /\ ~HasHeader(m1, "Git-commit")
        THEN [message |-> m1, raised |-> "TypeError"]
        ELSE [message |-> update_diffstat(Marked(m1)),
              raised |-> IF is_empty(m, newbody) THEN "EmptyCommitError" ELSE "none"]

\* the message after Patch.filter and whether it raised:
\* "none", "EmptyCommitError", or "TypeError" ('in' applied to a missing Git-commit)
filter(m, files, exclude) ==
    FilterEnd(m, FilterLoop(splitlines(body(m.payload)), 1,
                            [body |-> <<>>, chunk |-> <<>>, filename |-> <<>>, partial |-> FALSE],
                            files, exclude),
              files, exclude)

-----------------------------------------------------------------------------
(* The tag/header editor: Patch.add_references *)

\* the characters reference tokens are written in, in code point order
CodePoints ==
    <<"#","-","0","1","2","3","4","5","6","7","8","9","A","B","C","a","b","c","s">>

Ord(c) == CHOOSE i \in DOMAIN CodePoints : CodePoints[i] = c

\* Python's a <= b on strings: by code point, a proper prefix first
RECURSIVE StrLeq(_, _)
StrLeq(a, b) ==
    IF a = <<>> THEN TRUE
    ELSE IF b = <<>> THEN FALSE
    ELSE IF Head(a) = Head(b) THEN StrLeq(Tail(a), Tail(b))
    ELSE Ord(Head(a)) < Ord(Head(b))

RECURSIVE InsertSorted(_, _)
InsertSorted(x, xs) ==
    IF xs = <<>> THEN <<x>>
    ELSE IF StrLeq(x, Head(xs)) THEN <<x>> \o xs
    ELSE <<Head(xs)>> \o InsertSorted(x, Tail(xs))

\* a plausible slip: the lists are merged and joined but never sorted
sort_omitted(xs) == xs

\* list.sort() on a list of strings
RECURSIVE sort(_)
sort(xs) == IF xs = <<>> THEN <<>> ELSE InsertSorted(Head(xs), sort(Tail(xs)))

\* list.remove(x): the first occurrence only
RECURSIVE remove(_, _)
remove(xs, x) ==
    IF xs = <<>> THEN <<>>
    ELSE IF Head(xs) = x THEN Tail(xs)
    ELSE <<Head(xs)>> \o remove(Tail(xs), x)

\* `for ref in refs: if ref in newrefs: newrefs.remove(ref)`
RECURSIVE RemoveKnown(_, _)
RemoveKnown(refs, newrefs) ==
    IF refs = <<>> THEN newrefs
    ELSE RemoveKnown(Tail(refs),
                     IF InList(Head(refs), newrefs) THEN remove(newrefs, Head(refs))
                     ELSE newrefs)

add_references(m, newrefs) ==
    IF HasHeader(m, "References")
    THEN LET refs == split(GetHeader(m, "References"))
         IN  replace_header(m, "References",
                            join(<<SP>>, sort(refs \o RemoveKnown(refs, newrefs))))
    ELSE add_header(m, "References", join(<<SP>>, sort(newrefs)))

-----------------------------------------------------------------------------
(* The tag/header editor: Patch.add_signature *)

\* The contact email is pasted into the pattern unescaped, so it is read as a
\* regular expression: '.' stands for any character and 'x+' for one or more x.
\* TRUE iff pat[p..] matches s from position i on.
RECURSIVE ReMatchAt(_, _, _, _)
ReMatchAt(pat, p, s, i) ==
    IF p > Len(pat) THEN TRUE
    ELSE LET atom == pat[p]
             plus == p < Len(pat) /\ pat[p + 1] = "+"
             here == i <= Len(s) /\ (atom = "." \/ atom = s[i])
         IN  IF plus
             THEN here /\ (ReMatchAt(pat, p + 2, s, i + 1) \/ ReMatchAt(pat, p, s, i + 1))
             ELSE here /\ ReMatchAt(pat, p + 1, s, i + 1)

\* re.search(rf'{word}.*{an_email}', line)
TagSearch(word, an_email, line) ==
    \E i \in 1..Len(line) :
        /\ StartsWithAt(line, i, word)
        /\ \E j \in (i + Len(word))..(Len(line) + 1) : ReMatchAt(an_email, 1, line, j)

\* the first loop of add_signature: some line carries a tag of a configured email
AlreadySigned(payload, cfg) ==
    LET ls == splitlines(payload)
    IN  \E n \in DOMAIN ls : \E e \in DOMAIN cfg.emails :
            \/ TagSearch(<<"A","c","k","e","d","-","b","y">>, cfg.emails[e], ls[n])
            \/ TagSearch(<<"S","i","g","n","e","d","-","o","f","f","-","b","y">>,
                         cfg.emails[e], ls[n])

\* f'{tag}: {config.name} <{config.email}>'
TagLine(cfg, sob) ==
    (IF sob THEN <<"S","i","g","n","e","d","-","o","f","f","-","b","y">>
     ELSE <<"A","c","k","e","d","-","b","y">>)
        \o <<":"," ">> \o cfg.name \o <<" ","<">> \o cfg.email \o <<">">>

\* `if r'-by: ' not in last: text += '\n'`
SignatureSep(last) == IF Contains(<<"-","b","y",":"," ">>, last) THEN <<>> ELSE <<NL>>

\* the second loop of add_signature
RECURSIVE SignLoop(_, _, _, _, _)
SignLoop(ls, n, text, last, tagline) ==
    IF n > Len(ls) THEN text
    ELSE LET line == ls[n]
             t1 == IF IsDashes(line)
                   THEN rstrip(text) \o <<NL>> \o SignatureSep(last) \o tagline \o <<NL>>
                   ELSE text
         IN  SignLoop(ls, n + 1, t1 \o line \o <<NL>>, line, tagline)

add_signature(m, cfg, sob) ==
    IF AlreadySigned(m.payload, cfg) THEN m
    ELSE set_payload(m, SignLoop(splitlines(m.payload), 1, <<>>, <<>>, TagLine(cfg, sob)))

-----------------------------------------------------------------------------
(* The chunk shrinker: Patch.shrink_chunk *)

\* a plausible slip: the hunk is written but the added/removed counters are not
\* set back to 0 for the next hunk
EmitHunk_KeepCounts(lines, st) ==
    LET diff == st.end - st.start
    IN  [st EXCEPT
            !.text = @ \o <<"@","@"," ","-">> \o Dec(st.start + 1) \o <<",">>
                       \o Dec(diff - st.added) \o <<" ","+">> \o Dec(st.start + 1) \o <<",">>
                       \o Dec(diff - st.removed) \o <<" ","@","@",NL>>
                       \o join(<<NL>>, SubSeq(lines, st.start + 1, st.end)) \o <<NL>>,
            !.end = -1,
            !.start = -1]

\* `if start >= 0 and end >= 0:` the hunk header, the lines [start, end), the reset
EmitHunk(lines, st) ==
    LET diff == st.end - st.start
    IN  [st EXCEPT
            !.text = @ \o <<"@","@"," ","-">> \o Dec(st.start + 1) \o <<",">>
                       \o Dec(diff - st.added) \o <<" ","+">> \o Dec(st.start + 1) \o <<",">>
                       \o Dec(diff - st.removed) \o <<" ","@","@",NL>>
                       \o join(<<NL>>, SubSeq(lines, st.start + 1, st.end)) \o <<NL>>,
            !.end = -1,
            !.start = -1,
            !.added = 0,
            !.removed = 0]

\* a changed line opens a hunk 3 lines above itself, not above the first line
OpenHunk(st, n) ==
    IF st.start < 0 THEN (IF n - 3 < 0 THEN 0 ELSE n - 3) ELSE st.start

\* the loop of shrink_chunk; n counts the lines from 0 as enumerate() does
RECURSIVE ShrinkLoop(_, _, _)
ShrinkLoop(lines, n, st) ==
    IF n >= Len(lines) THEN st.text
    ELSE LET line == lines[n + 1]
             s1 == IF StartsWith(line, <<"-">>)
                   THEN [st EXCEPT !.start = OpenHunk(st, n), !.removed = @ + 1, !.count = 0]
                   ELSE IF StartsWith(line, <<"+">>)
                   THEN [st EXCEPT !.start = OpenHunk(st, n), !.added = @ + 1, !.count = 0]
                   ELSE LET c == st.count + 1
                        IN  IF st.start >= 0 /\ 0 > st.end /\ (c > 3 \/ n + 1 = Len(lines))
                            THEN [st EXCEPT !.count = c,
                                            !.end = IF n >= Len(lines) THEN Len(lines) - 1 ELSE n]
                            ELSE [st EXCEPT !.count = c]
             s2 == IF s1.start >= 0 /\ s1.end >= 0 THEN EmitHunk(lines, s1) ELSE s1
         IN  ShrinkLoop(lines, n + 1, s2)

shrink_chunk(chunk) ==
    ShrinkLoop(splitlines(chunk), 0,
               [text |-> <<>>, start |-> -1, end |-> -1, added |-> 0, removed |-> 0, count |-> 0])

-----------------------------------------------------------------------------
(* Inputs: messages as Patch.from_email leaves them for a commit that git  *)
(* printed with `diff-tree --pretty=email -p --stat`                       *)

\* bounds of the model
MaxSections == 3    \* file sections of the commit's diff
MaxCalls == 2       \* calls made on one Patch

FileNames == << <<"A">>, <<"d","/","B">>, <<"x","/","d","/","C">>, <<"d","/","e","/","D">>,
                <<"x","/","E">> >>

NumFiles == IF MaxSections < Len(FileNames) THEN MaxSections ELSE Len(FileNames)

\* one file section of a git diff: its boundary lines, its file lines and one hunk
Section(f) ==
    << <<"d","i","f","f"," ","-","-","g","i","t"," ","a","/">> \o f \o <<" ","b","/">> \o f,
       <<"i","n","d","e","x"," ","1","2","3","4","5","6","7",".",".","8","9","a","b","c","d","e",
         " ","1","0","0","6","4","4">>,
       <<"-","-","-"," ","a","/">> \o f,
       <<"+","+","+"," ","b","/">> \o f,
       <<"@","@"," ","-","1"," ","+","1"," ","@","@">>,
       <<"-","o","l","d">>,
       <<"+","n","e","w">> >>

\* the diff of a commit that touches the files numbered by the set S, in order
RECURSIVE DiffOf(_, _)
DiffOf(S, k) ==
    IF k > NumFiles THEN <<>>
    ELSE (IF k \in S THEN Unlines(Section(FileNames[k])) ELSE <<>>) \o DiffOf(S, k + 1)

Prose == <<"F","i","x"," ","t","h","e"," ","f","r","o","b">>

CommitMessage(diff) ==
    [hdrs |-> << [name |-> "Subject", value |-> Prose],
                 [name |-> "Git-commit", value |-> <<"c","0","f","f","e","e">>] >>,
     payload |-> Unlines(<<Prose, <<"-","-","-">>>>) \o get_diffstat(diff) \o <<NL>> \o diff]

FilterMessages ==
    {CommitMessage(DiffOf(S, 1)) : S \in (SUBSET (1..NumFiles)) \ {{}}}

\* the -x / -X path lists tried
FileLists ==
    { << <<"A">> >>,
      << <<"d","/">> >>,
      << <<"x","/">> >>,
      << <<"d","/","B">>, <<"A">> >>,
      << <<"/","n","o","n","e","x","i","s","t","e","n","t">> >> }

DefaultConfig ==
    [name |-> <<"J","o"," ","D","e","v">>,
     email |-> <<"j","o","@","x",".","o","r","g">>,
     emails |-> << <<"j","o","@","x",".","o","r","g">> >>]

NoCall == [op |-> "none"]

\* nothing written, nothing printed
EmptyWorld == [files |-> {}, stdout |-> <<>>, stderr |-> <<>>]

\* the fields of a Patch made with no argument
NoPatch == [commit |-> <<>>, force |-> FALSE, repo |-> <<>>, repourl |-> <<>>,
            in_mainline |-> FALSE]

-----------------------------------------------------------------------------
(* Filtering a Patch: any sequence of Patch.filter calls *)

InitFilter ==
    /\ message \in FilterMessages
    /\ config = DefaultConfig
    /\ call = NoCall
    /\ ncalls = 0
    /\ world = EmptyWorld
    /\ patch = NoPatch

Filter ==
    /\ ncalls < MaxCalls
    /\ \E files \in FileLists, exclude \in BOOLEAN :
          LET r == filter(message, files, exclude)
          IN  /\ message' = r.message
              /\ call' = [op |-> "filter", files |-> files, exclude |-> exclude,
                          pre |-> message, raised |-> r.raised]
    /\ ncalls' = ncalls + 1
    /\ UNCHANGED <<config, world, patch>>

NextFilter == Filter

SpecFilter == InitFilter /\ [][NextFilter]_vars

\* the file names of the per-file sections of a payload's diff body, read off their
\* `+++ <x>/<path>` lines
SectionFiles(payload) ==
    LET ls == splitlines(body(payload))
    IN  {PlusFilename(ls[i]) : i \in DOMAIN ls} \ {<<>>}

EndsWith(s, p) == Len(s) >= Len(p) /\ StartsWithAt(s, Len(s) - Len(p) + 1, p)

\* the selection rule as the specification words it: f is listed, or a listed
\* element that ends in '/' is a prefix of f
PrefixRule(f, files) ==
    \/ InList(f, files)
    \/ \E i \in 1..Len(files) : EndsWith(files[i], <<"/">>) /\ StartsWith(f, files[i])

\* C1: after filter(file_list, exclude), a section of the body with file name f is
\* retained iff exclude XOR (f is in file_list, or an element of file_list ending
\* in '/' is a prefix of f); such an element counts as a prefix only, not as a
\* substring of f.
C1_RetainedIffPrefixRule ==
    call.op = "filter" =>
        \A f \in SectionFiles(call.pre.payload) :
            (f \in SectionFiles(message.payload))
                <=> Xor(call.exclude, PrefixRule(f, call.files))

PartialText == <<"(","p","a","r","t","i","a","l",")">>

Occurrences(sub, s) == Cardinality({i \in 1..Len(s) : StartsWithAt(s, i, sub)})

MarkedPartial(m) ==
    /\ HasHeader(m, "Git-commit")
    /\ EndsWith(GetHeader(m, "Git-commit"), <<SP>> \o PartialText)
    /\ HasHeader(m, "Patch-filtered")

\* C2: after filter on a patch with a Git-commit header (returning or raising), the
\* Git-commit value carries ' (partial)' and a Patch-filtered header is present iff
\* at least one section was dropped, wherever the dropped section sits; and over any
\* sequence of filter calls '(partial)' occurs at most once in Git-commit.
C2_PartialIffDropped ==
    (call.op = "filter" /\ HasHeader(call.pre, "Git-commit")) =>
        /\ ~MarkedPartial(call.pre) =>
              (MarkedPartial(message)
                  <=> \E f \in SectionFiles(call.pre.payload) :
                          f \notin SectionFiles(message.payload))
        /\ Occurrences(PartialText, GetHeader(message, "Git-commit")) <= 1

-----------------------------------------------------------------------------
(* Adding references: Patch.add_references on messages with and without a  *)
(* References header                                                        *)

MaxRefs == 2        \* tokens in one new_refs list
MaxRefCalls == 1    \* add_references calls on one Patch

RefTokens == { <<"a">>, <<"b">>, <<"c">>, <<"b","s","c","#","1">>, <<"B","-","2">> }

\* the References values a patch arrives with; the last three were written by hand
RefValues ==
    { <<"c">>,
      <<"a"," ","b","s","c","#","1">>,
      <<"c"," ","a">>,
      <<"c"," ","c">>,
      <<"b"," "," ","B","-","2">> }

PlainMessage ==
    [hdrs |-> << [name |-> "Subject", value |-> Prose] >>,
     payload |-> Unlines(<<Prose>>)]

RefMessages ==
    {PlainMessage} \cup {add_header(PlainMessage, "References", v) : v \in RefValues}

RefLists == UNION { [1..n -> RefTokens] : n \in 1..MaxRefs }

InitRefs ==
    /\ message \in RefMessages
    /\ config = DefaultConfig
    /\ call = NoCall
    /\ ncalls = 0
    /\ world = EmptyWorld
    /\ patch = NoPatch

AddReferences ==
    /\ ncalls < MaxRefCalls
    /\ \E newrefs \in RefLists :
          /\ message' = add_references(message, newrefs)
          /\ call' = [op |-> "add_references", newrefs |-> newrefs, pre |-> message]
    /\ ncalls' = ncalls + 1
    /\ UNCHANGED <<config, world, patch>>

NextRefs == AddReferences

SpecRefs == InitRefs /\ [][NextRefs]_vars

\* the space-separated tokens of the message's References value
RefsOf(m) == IF HasHeader(m, "References") THEN split(GetHeader(m, "References")) ELSE <<>>

TokenSet(ts) == {ts[i] : i \in DOMAIN ts}

\* C6: after add_references(new_refs) the message has one References header whose
\* tokens are in lexicographic order and include every token of the previous value
\* and of new_refs, whether or not a References header existed;
\* add_references(['b','a']) on 'References: c' yields 'a b c'.
C6_ReferencesSortedMerge ==
    call.op = "add_references" =>
        LET ts == RefsOf(message)
        IN  /\ HeaderCount(message, "References") = 1
            /\ \A i, j \in DOMAIN ts : i < j => StrLeq(ts[i], ts[j])
            /\ TokenSet(RefsOf(call.pre)) \cup TokenSet(call.newrefs) \subseteq TokenSet(ts)
            /\ (RefsOf(call.pre) = << <<"c">> >> /\ call.newrefs = << <<"b">>, <<"a">> >>)
                  => GetHeader(message, "References") = <<"a"," ","b"," ","c">>

\* new references given out of order were merged into an existing header
C6_Witness ==
    /\ call.op = "add_references"
    /\ HasHeader(call.pre, "References")
    /\ call.newrefs = << <<"b">>, <<"a">> >>
    /\ GetHeader(message, "References") = <<"a"," ","b"," ","c">>

\* C7: add_references deduplicates: whatever the previous References value and
\* new_refs (a list that repeats a token, tokens already in the header, a header that
\* already repeats a token), no token occurs twice in the resulting token list.
C7_ReferencesDeduplicated ==
    call.op = "add_references" =>
        LET ts == RefsOf(message)
        IN  \A i, j \in DOMAIN ts : i # j => ts[i] # ts[j]

-----------------------------------------------------------------------------
(* Signing: Patch.add_signature under the configured contacts, on payloads *)
(* as git prints them and as patch files read by fixpatch hold them        *)

OtherTag ==
    <<"S","i","g","n","e","d","-","o","f","f","-","b","y",":"," ","A","l"," ","<",
      "a","l","@","y",".","o","r","g",">">>

OwnTag ==
    <<"A","c","k","e","d","-","b","y",":"," ","J","o"," ","D","e","v"," ","<",
      "j","o","@","x",".","o","r","g",">">>

\* the commit message text above the separator
MessageTexts ==
    { <<Prose>>,
      <<Prose, <<>>, OtherTag>>,
      <<Prose, <<>>, OwnTag>>,
      <<Prose, <<>>, <<>>>>,
      <<Prose, OtherTag, <<>>>>,
      <<>> }

\* a diff that takes out a line reading `--`, which git prints as `---`
DashDiff ==
    Unlines(<< <<"d","i","f","f"," ","-","-","g","i","t"," ","a","/","M"," ","b","/","M">>,
               <<"-","-","-"," ","a","/","M">>,
               <<"+","+","+"," ","b","/","M">>,
               <<"@","@"," ","-","1",",","2"," ","+","1",",","2"," ","@","@">>,
               <<" ","c","t","x">>,
               <<"-","-","-">>,
               <<"+","n","e","w">> >>)

SigDiffs == {DiffOf({1}, 1), DashDiff}

\* with the `---` separator and diffstat git writes, and without them
SigPayloads ==
    {Unlines(t) \o <<"-","-","-",NL>> \o get_diffstat(d) \o <<NL>> \o d :
        t \in MessageTexts, d \in SigDiffs}
    \cup {Unlines(t) \o d : t \in {<<Prose>>}, d \in SigDiffs}

Configs ==
    { DefaultConfig,
      [name |-> <<"J","o"," ","D","e","v">>,
       email |-> <<"j","o","+","k","@","x",".","o","r","g">>,
       emails |-> << <<"j","o","+","k","@","x",".","o","r","g">> >>],
      [name |-> <<"J","o"," ","D","e","v">>,
       email |-> <<"a","l","@","y",".","o","r","g">>,
       emails |-> << <<"a","l","@","y",".","o","r","g">>,
                     <<"j","o","@","x",".","o","r","g">> >>] }

InitSig ==
    /\ message \in {set_payload(PlainMessage, p) : p \in SigPayloads}
    /\ config \in Configs
    /\ call = NoCall
    /\ ncalls = 0
    /\ world = EmptyWorld
    /\ patch = NoPatch

AddSignature ==
    /\ ncalls < MaxCalls
    /\ \E sob \in BOOLEAN :
          /\ message' = add_signature(message, config, sob)
          /\ call' = [op |-> "add_signature", sob |-> sob, pre |-> message,
                      repeat |-> call.op = "add_signature" /\ call.sob = sob]
    /\ ncalls' = ncalls + 1
    /\ UNCHANGED <<config, world, patch>>

NextSig == AddSignature

SpecSig == InitSig /\ [][NextSig]_vars

\* C8: add_signature is idempotent: for every payload and every configured contact
\* email, a second call with the same sob flag and configuration leaves the payload
\* as the first call left it.
C8_SignatureIdempotent ==
    (call.op = "add_signature" /\ call.repeat) => message.payload = call.pre.payload

\* a line that is an Acked-by / Signed-off-by tag naming the email, read literally
NamesEmail(line, an_email) ==
    \E w \in { <<"A","c","k","e","d","-","b","y">>,
               <<"S","i","g","n","e","d","-","o","f","f","-","b","y">> } :
        \E i \in 1..Len(line) :
            StartsWithAt(line, i, w) /\ Contains(an_email, From(line, i + Len(w)))

HasOwnTag(payload, cfg) ==
    LET ls == splitlines(payload)
    IN  \E n \in DOMAIN ls : \E e \in DOMAIN cfg.emails : NamesEmail(ls[n], cfg.emails[e])

\* C9: when the payload has no Acked-by/Signed-off-by line for a configured email,
\* add_signature inserts the tag line ('Signed-off-by' if sob else 'Acked-by', then
\* ': <name> <email>') exactly once, immediately before the `---` separator line,
\* preceded by one blank line iff the line directly above the separator is not a
\* '-by: ' tag; every other payload line is kept in order.
C9_SignatureInsertedOnce ==
    (/\ call.op = "add_signature"
     /\ ~HasOwnTag(call.pre.payload, config)
     /\ \E n \in DOMAIN splitlines(call.pre.payload) : IsDashes(splitlines(call.pre.payload)[n]))
    =>
        LET pre == splitlines(call.pre.payload)
            k == CHOOSE n \in DOMAIN pre :
                    IsDashes(pre[n]) /\ \A j \in 1..(n - 1) : ~IsDashes(pre[j])
            blank == IF k > 1 /\ Contains(<<"-","b","y",":"," ">>, pre[k - 1])
                     THEN <<>> ELSE << <<>> >>
            tag == (IF call.sob THEN <<"S","i","g","n","e","d","-","o","f","f","-","b","y">>
                    ELSE <<"A","c","k","e","d","-","b","y">>)
                       \o <<":"," ">> \o config.name \o <<" ","<">> \o config.email \o <<">">>
        IN  splitlines(message.payload)
                = SubSeq(pre, 1, k - 1) \o blank \o <<tag>> \o SubSeq(pre, k, Len(pre))

-----------------------------------------------------------------------------
(* The diffstat of a Patch: Patch.add_diffstat and Patch.update_diffstat on *)
(* patch files with and without a separator, notes and an earlier diffstat *)

\* a diff that only removes a line: its summary names no insertion
DelDiff ==
    Unlines(<< <<"d","i","f","f"," ","-","-","g","i","t"," ","a","/","M"," ","b","/","M">>,
               <<"-","-","-"," ","a","/","M">>,
               <<"+","+","+"," ","b","/","M">>,
               <<"@","@"," ","-","1"," ","+","0",",","0"," ","@","@">>,
               <<"-","o","l","d">> >>)

\* a diff that adds a line of text reading like the last line of a diffstat
SummaryDiff ==
    Unlines(<< Chars("diff --git a/N b/N"),
               Chars("--- a/N"),
               Chars("+++ b/N"),
               Chars("@@ -1 +1 @@"),
               Chars("-old"),
               Chars("+ 2 files changed, 3 insertions(+)") >>)

StatDiffs == {DiffOf({1}, 1), DiffOf({1, 2}, 1), DelDiff, DashDiff, SummaryDiff, <<>>}

Notes == <<"n","o","t","e","s">>

\* what stands above the diff, given the diffstat d of that diff
StatHeaders(d) ==
    { Unlines(<<Prose>>),
      Unlines(<<Prose, <<>>, <<>>>>),
      Unlines(<<Prose, <<"-","-","-">>>>),
      Unlines(<<Prose, <<"-","-","-">>, <<>>>>),
      Unlines(<<Prose, <<"-","-","-">>, Notes>>),
      Unlines(<<Prose, <<"-","-","-">>>>) \o d \o <<NL>>,
      Unlines(<<Prose, <<"-","-","-">>, Notes>>) \o d \o <<NL>>,
      <<>> }

StatPayloads ==
    UNION { {h \o diff : h \in StatHeaders(get_diffstat(diff))} : diff \in StatDiffs }

InitDiffstat ==
    /\ message \in {set_payload(PlainMessage, p) : p \in StatPayloads}
    /\ config = DefaultConfig
    /\ call = NoCall
    /\ ncalls = 0
    /\ world = EmptyWorld
    /\ patch = NoPatch

AddDiffstat ==
    /\ ncalls < MaxCalls
    /\ message' = add_diffstat(message)
    /\ call' = [op |-> "add_diffstat", pre |-> message, entry |-> message]
    /\ ncalls' = ncalls + 1
    /\ UNCHANGED <<config, world, patch>>

\* `entry` is the message as add_diffstat finds it
UpdateDiffstat ==
    /\ ncalls < MaxCalls
    /\ message' = update_diffstat(message)
    /\ call' = [op |-> "update_diffstat", pre |-> message, entry |-> strip_diffstat(message)]
    /\ ncalls' = ncalls + 1
    /\ UNCHANGED <<config, world, patch>>

NextDiffstat == AddDiffstat \/ UpdateDiffstat

SpecDiffstat == InitDiffstat /\ [][NextDiffstat]_vars

AddDiffstatRan == call.op \in {"add_diffstat", "update_diffstat"}

HasSummaryLine(payload) ==
    \E n \in DOMAIN splitlines(payload) : HasStatSummary(splitlines(payload)[n])

HasDashesLine(text) ==
    \E n \in DOMAIN splitlines(text) : IsDashes(splitlines(text)[n])

EndsWithText(s, t) == Len(t) <= Len(s) /\ SubSeq(s, Len(s) - Len(t) + 1, Len(s)) = t

NonBlank(ls) == SelectSeq(ls, LAMBDA l : l # <<>>)

\* C10: add_diffstat leaves the payload and every header as they were when a payload
\* line matches '<N> file(s) changed, <N> insertion'; otherwise the new header region
\* keeps the old header's lines and ends with a `---` line (old header without one) or
\* a blank line (old header with one), then the diffstat of the body, then a blank
\* line, and the diff body that follows is the old body, unchanged.
C10_DiffstatNoopOrInserted ==
    AddDiffstatRan =>
        LET old == call.entry.payload
            hd == header(old)
            bd == body(old)
            intro == IF HasDashesLine(hd) THEN <<NL>> ELSE <<"-","-","-",NL>>
            added == intro \o get_diffstat(bd) \o <<NL>>
        IN  IF HasSummaryLine(old)
            THEN message = call.entry
            ELSE /\ message.hdrs = call.entry.hdrs
                 /\ body(message.payload) = bd
                 /\ message.payload = header(message.payload) \o bd
                 /\ EndsWithText(header(message.payload), added)
                 /\ NonBlank(splitlines(header(message.payload)))
                        = NonBlank(splitlines(hd) \o splitlines(added))

\* a diffstat was inserted under a header that already had its `---` line
C10_Witness ==
    /\ AddDiffstatRan
    /\ ~HasSummaryLine(call.entry.payload)
    /\ HasDashesLine(header(call.entry.payload))
    /\ body(call.entry.payload) # <<>>
    /\ message # call.entry

\* the lines of a header region that are no part of a diffstat block
NonStatLines(hd) ==
    SelectSeq(splitlines(hd), LAMBDA l : ~IsStatFileLine(l) /\ ~IsStatSummaryLine(l))

\* C11: after update_diffstat the diff body is the old one, the header region holds
\* the old header's lines that are no diffstat line, in order (with a `---` line if
\* there was none), then the diffstat of the body, once and as its last lines, and
\* no other diffstat line; and one more update_diffstat leaves the payload as it is.
C11_UpdateReplacesDiffstat ==
    call.op = "update_diffstat" =>
        LET old == call.pre.payload
            kept == NonStatLines(header(old))
            sep == IF \E i \in DOMAIN kept : IsDashes(kept[i]) THEN <<>> ELSE << <<"-","-","-">> >>
        IN  /\ message.hdrs = call.pre.hdrs
            /\ body(message.payload) = body(old)
            /\ message.payload = header(message.payload) \o body(old)
            /\ NonBlank(splitlines(header(message.payload)))
                   = NonBlank(kept \o sep \o splitlines(get_diffstat(body(old))))
            /\ update_diffstat(message).payload = message.payload

-----------------------------------------------------------------------------
(* Shrinking a chunk: Patch.shrink_chunk applied to the data lines that    *)
(* Patch.handle_merge collects from a combined-diff chunk                  *)

MaxChunkLen == 8    \* lines of a chunk

\* a context line, an added line, a removed line
ChunkLines == { <<" ","c">>, <<"+","n">>, <<"-","o">> }

Chunks ==
    UNION { {Unlines(ls) : ls \in [1..n -> ChunkLines]} : n \in 1..MaxChunkLen }

NoMessage == [hdrs |-> <<>>, payload |-> <<>>]

InitShrink ==
    /\ message = NoMessage
    /\ config = DefaultConfig
    /\ call \in {[op |-> "pending", chunk |-> c] : c \in Chunks}
    /\ ncalls = 0
    /\ world = EmptyWorld
    /\ patch = NoPatch

ShrinkChunk ==
    /\ call.op = "pending"
    /\ call' = [op |-> "shrink_chunk", chunk |-> call.chunk, text |-> shrink_chunk(call.chunk)]
    /\ ncalls' = ncalls + 1
    /\ UNCHANGED <<message, config, world, patch>>

NextShrink == ShrinkChunk

SpecShrink == InitShrink /\ [][NextShrink]_vars

\* reading an emitted hunk header `@@ -a,b +c,d @@` back
DigitVal(c) == CHOOSE k \in 0..9 : Dec(k) = <<c>>

RECURSIVE Val(_)
Val(ds) ==
    IF ds = <<>> THEN 0 ELSE 10 * Val(SubSeq(ds, 1, Len(ds) - 1)) + DigitVal(ds[Len(ds)])

IsHunkHeader(line) == StartsWith(line, <<"@","@"," ","-">>)

ReadHunkHeader(line) ==
    LET j1 == SkipDigits(line, 5)
        j2 == SkipDigits(line, j1 + 1)
        j3 == SkipDigits(line, j2 + 2)
        j4 == SkipDigits(line, j3 + 1)
    IN  [ok |-> /\ j1 > 5 /\ StartsWithAt(line, j1, <<",">>)
                /\ j2 > j1 + 1 /\ StartsWithAt(line, j2, <<" ","+">>)
                /\ j3 > j2 + 2 /\ StartsWithAt(line, j3, <<",">>)
                /\ j4 > j3 + 1 /\ From(line, j4) = <<" ","@","@">>,
         old_start |-> Val(SubSeq(line, 5, j1 - 1)),
         old_len |-> Val(SubSeq(line, j1 + 1, j2 - 1)),
         new_start |-> Val(SubSeq(line, j2 + 2, j3 - 1)),
         new_len |-> Val(SubSeq(line, j3 + 1, j4 - 1))]

HunkHeaders(out) == {i \in DOMAIN out : IsHunkHeader(out[i])}

\* the lines written under the hunk header at line h of out
HunkLines(out, h) ==
    LET later == {j \in HunkHeaders(out) : j > h}
        next == IF later = {} THEN Len(out) + 1
                ELSE CHOOSE j \in later : \A k \in later : j <= k
    IN  SubSeq(out, h + 1, next - 1)

CountStarting(ls, c) == Cardinality({i \in DOMAIN ls : StartsWith(ls[i], <<c>>)})

\* C5: every hunk shrink_chunk emits, `@@ -s,old_len +s,new_len @@` followed by the
\* input lines [start, end), has s = start + 1, old_len = (end - start) - (emitted
\* lines starting with '+') and new_len = (end - start) - (emitted lines starting with
\* '-'), also when several hunks come from one chunk.
C5_HunkHeaderMatchesLines ==
    call.op = "shrink_chunk" =>
        LET inp == splitlines(call.chunk)
            out == splitlines(call.text)
        IN  \A h \in HunkHeaders(out) :
                LET hd == ReadHunkHeader(out[h])
                    em == HunkLines(out, h)
                IN  /\ hd.ok
                    /\ hd.old_start = hd.new_start
                    /\ hd.old_start >= 1
                    /\ em = SubSeq(inp, hd.old_start, hd.old_start + Len(em) - 1)
                    /\ hd.old_len = Len(em) - CountStarting(em, "+")
                    /\ hd.new_len = Len(em) - CountStarting(em, "-")

\* a chunk from which two hunks were emitted, the second with added and removed lines
C5_Witness ==
    /\ call.op = "shrink_chunk"
    /\ LET out == splitlines(call.text)
       IN  /\ Cardinality(HunkHeaders(out)) >= 2
           /\ \E h \in HunkHeaders(out) :
                 /\ \E g \in HunkHeaders(out) : g < h
                 /\ CountStarting(HunkLines(out, h), "+") >= 1
                 /\ CountStarting(HunkLines(out, h), "-") >= 1

-----------------------------------------------------------------------------
(* Reading and printing the envelope: email.parser.Parser().parsestr and   *)
(* Message.as_string, for the fields the tools read and write              *)

HeaderNames ==
    {"From", "Date", "Subject", "Git-commit", "Git-repo", "Patch-mainline",
     "References", "Patch-filtered", "X-Git-Url"}

\* str.lstrip(' \t')
RECURSIVE lstrip(_)
lstrip(s) == IF s # <<>> /\ s[1] \in {" ", "\t"} THEN lstrip(Tail(s)) ELSE s

IsFieldLine(line) == \E n \in HeaderNames : StartsWith(line, Chars(n) \o <<":">>)

FieldName(line) == CHOOSE n \in HeaderNames : StartsWith(line, Chars(n) \o <<":">>)

IsContinuation(line) == line # <<>> /\ line[1] \in {" ", "\t"}

\* the fields read from ls[i..]: a field line opens one, a line that starts with
\* white space continues the last one, any other line ends the block
RECURSIVE ReadFields(_, _, _)
ReadFields(ls, i, acc) ==
    IF i > Len(ls) THEN [hdrs |-> acc, next |-> i]
    ELSE IF IsFieldLine(ls[i])
         THEN LET n == FieldName(ls[i])
              IN  ReadFields(ls, i + 1,
                      Append(acc, [name |-> n, value |-> lstrip(From(ls[i], Len(n) + 2))]))
    ELSE IF IsContinuation(ls[i]) /\ acc # <<>>
         THEN ReadFields(ls, i + 1,
                  [acc EXCEPT ![Len(acc)].value = @ \o <<NL>> \o ls[i]])
    ELSE [hdrs |-> acc, next |-> i]

\* offset in the text of the first character of line k
RECURSIVE LineStart(_, _)
LineStart(ls, k) == IF k <= 1 THEN 1 ELSE LineStart(ls, k - 1) + Len(ls[k - 1]) + 1

parsestr(text) ==
    LET \* the payload starts after the blank line that ends the fields, if there is one
        Payload(ls, first) ==
            From(text, LineStart(ls, IF first <= Len(ls) /\ ls[first] = <<>>
                                     THEN first + 1 ELSE first))
        Fields(ls, from, r) ==
            [unixfrom |-> IF from THEN ls[1] ELSE <<>>,
             hdrs |-> r.hdrs,
             payload |-> Payload(ls, r.next)]
        Envelope(ls, from) == Fields(ls, from, ReadFields(ls, IF from THEN 2 ELSE 1, <<>>))
        Lines(ls) == Envelope(ls, ls # <<>> /\ StartsWith(ls[1], Chars("From ")))
    IN  Lines(TextLines(text))

\* Message.as_string(False): each field on its line(s), a blank line, the payload
RECURSIVE FieldsText(_)
FieldsText(hdrs) ==
    IF hdrs = <<>> THEN <<>>
    ELSE Chars(Head(hdrs).name) \o <<":", " ">> \o join(<<NL>>, TextLines(Head(hdrs).value))
             \o <<NL>> \o FieldsText(Tail(hdrs))

as_string(m) == FieldsText(m.hdrs) \o <<NL>> \o m.payload

\* message[name] as a truth value: the field is there and not empty
Truthy(m, name) == HasHeader(m, name) /\ GetHeader(m, name) # <<>>

-----------------------------------------------------------------------------
(* Merge commits: Patch.handle_merge folds a combined diff into a plain one *)

RECURSIVE MergeLoop(_, _, _)
MergeLoop(ls, i, st) ==
    IF i > Len(ls) \/ st.raised # "none" THEN st
    ELSE LET line == ls[i]
         IN  IF PATCH_START_RE(line)
             THEN MergeLoop(ls, i + 1,
                      IF st.in_chunk
                      THEN [st EXCEPT !.text = @ \o shrink_chunk(st.chunk),
                                      !.chunk = <<>>, !.in_chunk = FALSE]
                      ELSE [st EXCEPT !.chunk = @ \o line \o <<NL>>])
             ELSE IF StartsWith(line, <<"@","@","@">>)
             THEN MergeLoop(ls, i + 1,
                      [st EXCEPT !.text = @ \o (IF st.in_chunk THEN shrink_chunk(st.chunk)
                                                ELSE st.chunk),
                                 !.chunk = <<>>, !.in_chunk = TRUE])
             ELSE IF st.in_chunk
             THEN IF Len(line) < 2 THEN [st EXCEPT !.raised = "IndexError"]
                  ELSE IF line[2] \in {" ", "+"}
                  THEN MergeLoop(ls, i + 1,
                           [st EXCEPT !.chunk = @ \o <<line[1]>> \o From(line, 3) \o <<NL>>])
                  ELSE MergeLoop(ls, i + 1, st)
             ELSE MergeLoop(ls, i + 1, [st EXCEPT !.chunk = @ \o line \o <<NL>>])

handle_merge(m) ==
    LET \* st: the loop's state at its end; hd: self.header()
        Folded(st, hd, last) ==
            IF st.raised # "none" THEN [message |-> m, raised |-> st.raised]
            ELSE [message |-> set_payload(m, hd \o st.text \o last), raised |-> "none"]
        Closed(st) ==
            Folded(st, header(m.payload),
                   IF st.in_chunk THEN shrink_chunk(st.chunk) ELSE st.chunk)
    IN  Closed(MergeLoop(splitlines(body(m.payload)), 1,
                         [chunk |-> <<>>, text |-> <<>>, in_chunk |-> FALSE, raised |-> "none"]))

-----------------------------------------------------------------------------
(* The repositories on disk, as git answers run_command about them *)

Hash(c) == Repeat(c, 40)

\* `git diff-tree --pretty=email -r -p --cc --stat <commit>`
GitEmail(hash, text, stat, diff) ==
    Chars("From ") \o hash \o Chars(" Mon Sep 17 00:00:00 2001\n")
        \o Chars("From: Al <al@y.org>\n")
        \o Chars("Date: Tue, 1 Jan 2019 00:00:00 +0000\n")
        \o Chars("Subject: [PATCH] ") \o Prose \o <<NL>> \o <<NL>>
        \o text \o Chars("---\n") \o stat \o <<NL>> \o diff

PlainCommit(c, diff, tag) ==
    [hash |-> Hash(c), tag |-> tag,
     data |-> GitEmail(Hash(c), Chars("It was off by one.\n"), get_diffstat(diff), diff)]

\* the combined diff of a merge
CombinedDiff ==
    Chars("diff --cc A\n") \o Chars("index 1234567,89abcde..fedcba9\n")
        \o Chars("--- a/A\n") \o Chars("+++ b/A\n")
        \o Chars("@@@ -1,2 -1,2 +1,2 @@@\n")
        \o Chars("  ctx\n") \o Chars("- old\n") \o Chars(" -old2\n") \o Chars("++new\n")

MergeCommit(c) ==
    [hash |-> Hash(c), tag |-> <<>>,
     data |-> GitEmail(Hash(c), <<>>, Chars(" A | 2 +-\n 1 file changed, 1 insertion(+), 1 deletion(-)\n"),
                       CombinedDiff)]

MAINLINE_URLS ==
    << Chars("git://git.kernel.org/pub/scm/linux/kernel/git/torvalds/linux-2.6.git"),
       Chars("git://git.kernel.org/pub/scm/linux/kernel/git/torvalds/linux.git"),
       Chars("https://git.kernel.org/pub/scm/linux/kernel/git/torvalds/linux.git"),
       Chars("https://kernel.googlesource.com/pub/scm/linux/kernel/git/torvalds/linux.git") >>

\* a subsystem tree with one commit not yet pushed, and a clone of mainline
Repositories ==
    { [path |-> Chars("/r/sub"), url |-> Chars("git://git.kernel.org/s.git"),
       objects |-> { PlainCommit(x[1], DiffOf(x[2], 1), <<>>) :
                         x \in { <<"c", {1}>>, <<"d", {1, 2}>>, <<"e", {1}>> } }
                   \cup { MergeCommit("b") },
       unpublished |-> {Hash("e")}, tags |-> <<>>],
      [path |-> Chars("/r/linux"), url |-> MAINLINE_URLS[2],
       objects |-> { PlainCommit(x[1], DiffOf(x[2], 1), Chars(x[3])) :
                         x \in { <<"f", {2, 3}, "v6.1-rc2">>, <<"a", {1}, "undefined">> } },
       unpublished |-> {},
       tags |-> << Chars("v6.1"), Chars("v6.1-rc1"), Chars("v6.1-rc2"), Chars("v6.1-rc3") >>] }

NoRepo == [path |-> <<>>, url |-> <<>>, objects |-> {}, unpublished |-> {}, tags |-> <<>>]

\* the repository at a path; a path without a .git answers nothing
RepoAt(path) ==
    LET At(rs) == IF rs = {} THEN NoRepo ELSE CHOOSE r \in rs : TRUE
    IN  At({r \in Repositories : r.path = path})

\* the objects a revision names in a repository: the command line is cut at white
\* space, and a hash may be abbreviated to four characters or more
Named(path, commit) ==
    LET Rev(rev, os) == IF Len(rev) # 1 \/ Len(rev[1]) < 4 THEN {}
                        ELSE {o \in os : StartsWith(o.hash, rev[1])}
    IN  Rev(split(commit), RepoAt(path).objects)

\* the one object of a set of them, as a sequence of none or one
One(os) == IF os = {} THEN <<>> ELSE << CHOOSE o \in os : TRUE >>

\* Config.repos and Config.mainline_repos after merge_mainline_repos has run twice
ExportConfig ==
    [name |-> DefaultConfig.name, email |-> DefaultConfig.email, emails |-> DefaultConfig.emails,
     repos |-> << Chars("/r/sub"), Chars("/r/linux") >>,
     mainline_repos |-> MAINLINE_URLS \o << Chars("/r/linux"), Chars("/r/linux") >>,
     searched |-> TRUE]

\* Config() where no patch.cfg has a [repositories] search option: repos stays
\* [Path.cwd()], a Path object and not a string
UnsearchedConfig ==
    [name |-> DefaultConfig.name, email |-> DefaultConfig.email, emails |-> DefaultConfig.emails,
     repos |-> << Chars("/w") >>, mainline_repos |-> MAINLINE_URLS, searched |-> FALSE]

-----------------------------------------------------------------------------
(* patchops: the git queries *)

\* rev-list HEAD --not --remotes: with nothing unpublished every commit is confirmed,
\* otherwise the commit string as given must not be among the unpublished hashes
confirm_commit(commit, repo) ==
    LET Unpublished(out) == out = {} \/ commit \notin out
    IN  Unpublished(RepoAt(repo).unpublished)

canonicalize_commit(commit, repo) ==
    LET Shown(o) == IF o = <<>> THEN <<>> ELSE o[1].hash \o <<NL>>
    IN  Shown(One(Named(repo, commit)))

\* [data, raised]: the commit as an email, nothing when the repository lacks it
get_commit(commit, repo, force) ==
    LET \* o: what diff-tree shows; confirmed: what confirm_commit answers when asked
        Shown(o, confirmed) ==
            IF o = <<>> \/ o[1].data = <<>> THEN [data |-> <<>>, raised |-> "none"]
            ELSE IF ~force /\ ~confirmed
                 THEN [data |-> <<>>, raised |-> "LocalCommitError"]
            ELSE [data |-> o[1].data, raised |-> "none"]
    IN  Shown(One(Named(repo, commit)), confirm_commit(commit, repo))

get_git_repo_url(repo) == RepoAt(repo).url

get_tag(commit, repo) ==
    LET Shown(o) == IF o = <<>> THEN <<>> ELSE o[1].tag
    IN  Shown(One(Named(repo, commit)))

\* a run of digits of s from i on, and where it ends: [ds, next], ds empty if none
DigitRun(s, i) == [ds |-> SubSeq(s, i, SkipDigits(s, i) - 1), next |-> SkipDigits(s, i)]

\* `(\d+)\.(\d+)` at i: [ok, a, b, next]
TwoNumbers(s, i) ==
    LET Second(a, b) == [ok |-> a.ds # <<>> /\ b.ds # <<>>,
                         a |-> a.ds, b |-> b.ds, next |-> b.next]
        First(a) == Second(a, IF a.next <= Len(s) /\ s[a.next] = "."
                              THEN DigitRun(s, a.next + 1) ELSE [ds |-> <<>>, next |-> a.next])
    IN  First(DigitRun(s, i))

\* `-rc(\d+)` at i: the digits, empty if it does not match
RcAt(s, i) ==
    IF StartsWithAt(s, i, Chars("-rc")) THEN DigitRun(s, i + 3).ds ELSE <<>>

\* key_version: the tuple as a sequence, its last component <<n>> for a number and
\* <<>> for the empty string; <<>> for ()
key_version(tag) ==
    LET \* v2\.(\d+)\.(\d+)(\.(\d+)|-rc(\d+)|)
        Old(n) ==
            LET g4 == IF n.next <= Len(tag) /\ tag[n.next] = "."
                      THEN DigitRun(tag, n.next + 1).ds ELSE <<>>
                g5 == IF g4 = <<>> THEN RcAt(tag, n.next) ELSE <<>>
            IN  IF g5 # <<>> THEN <<2, Val(n.a), Val(n.b), FALSE, <<Val(g5)>> >>
                ELSE <<2, Val(n.a), Val(n.b), TRUE, <<Val(g4)>> >>
        \* v(\d+)\.(\d+)(-rc(\d+)|)
        New(n) ==
            LET g4 == RcAt(tag, n.next)
            IN  IF g4 # <<>> THEN <<Val(n.a), Val(n.b), 0, FALSE, <<Val(g4)>> >>
                ELSE <<Val(n.a), Val(n.b), 0, TRUE, <<>> >>
        Match(old, new) ==
            IF StartsWith(tag, Chars("v2.")) /\ old.ok THEN Old(old)
            ELSE IF StartsWith(tag, Chars("v")) /\ new.ok THEN New(new)
            ELSE <<>>
    IN  Match(TwoNumbers(tag, 4), TwoNumbers(tag, 2))

\* Python's a < b on two keys: "lt", "ge", or "TypeError" when the first components
\* that differ are a number and the empty string
KeyCompare(a, b) ==
    IF a = <<>> \/ b = <<>> THEN (IF a = <<>> /\ b # <<>> THEN "lt" ELSE "ge")
    ELSE IF \E i \in 1..3 : a[i] # b[i]
         THEN LET i == CHOOSE i \in 1..3 : a[i] # b[i] /\ \A j \in 1..(i - 1) : a[j] = b[j]
              IN  IF a[i] < b[i] THEN "lt" ELSE "ge"
    ELSE IF a[4] # b[4] THEN (IF b[4] THEN "lt" ELSE "ge")
    ELSE IF a[5] = b[5] THEN "ge"
    ELSE IF a[5] = <<>> \/ b[5] = <<>> THEN "TypeError"
    ELSE IF a[5][1] < b[5][1] THEN "lt" ELSE "ge"

\* lines.sort(key=key_version), a stable sort: x goes behind the keys not above its own
RECURSIVE InsertByVersion(_, _)
InsertByVersion(x, ls) ==
    IF ls = <<>> THEN <<x>>
    ELSE IF KeyCompare(key_version(x), key_version(ls[Len(ls)])) = "lt"
         THEN InsertByVersion(x, SubSeq(ls, 1, Len(ls) - 1)) \o << ls[Len(ls)] >>
    ELSE ls \o <<x>>

RECURSIVE SortByVersion(_)
SortByVersion(lines) ==
    IF lines = <<>> THEN <<>>
    ELSE InsertByVersion(lines[Len(lines)], SortByVersion(SubSeq(lines, 1, Len(lines) - 1)))

\* re.search(r"v([0-9]+)\.([0-9]+)(|-rc([0-9]+))$", lasttag): [ok, g1, g2, g4]
ReleaseForm(lasttag) ==
    LET At(i) ==
            LET n == TwoNumbers(lasttag, i + 1)
                g4 == RcAt(lasttag, n.next)
            IN  IF lasttag[i] = "v" /\ n.ok /\ n.next = Len(lasttag) + 1
                THEN [ok |-> TRUE, g1 |-> n.a, g2 |-> n.b, g4 |-> <<>>]
                ELSE IF lasttag[i] = "v" /\ n.ok /\ g4 # <<>>
                        /\ n.next + 3 + Len(g4) = Len(lasttag) + 1
                THEN [ok |-> TRUE, g1 |-> n.a, g2 |-> n.b, g4 |-> g4]
                ELSE [ok |-> FALSE]
        hits == {i \in 1..Len(lasttag) : At(i).ok}
    IN  IF hits = {} THEN [ok |-> FALSE] ELSE At(CHOOSE i \in hits : \A j \in hits : i <= j)

\* get_next_tag from the output `tag` of git on: [tag, raised], tag <<>> for None
NextTagOf(tag) ==
    LET NextOf(m) ==
            IF ~m.ok THEN <<>>
            ELSE IF m.g4 = <<>>
            THEN Chars("v") \o m.g1 \o Chars(".") \o Dec(Val(m.g2) + 1) \o Chars("-rc1")
            ELSE Chars("v") \o m.g1 \o Chars(".") \o Dec(Val(m.g2)) \o Chars(" or v")
                 \o m.g1 \o Chars(".") \o m.g2 \o Chars("-rc") \o Dec(Val(m.g4) + 1)
                 \o Chars(" (next release)")
        Latest(lines) ==
            IF \E i, j \in DOMAIN lines :
                   KeyCompare(key_version(lines[i]), key_version(lines[j])) = "TypeError"
            THEN [tag |-> <<>>, raised |-> "TypeError"]
            ELSE [tag |-> NextOf(ReleaseForm(SortByVersion(lines)[Len(lines)])),
                  raised |-> "none"]
    IN  IF tag = <<>> THEN [tag |-> <<>>, raised |-> "none"]
        ELSE IF split(tag) = <<>> THEN [tag |-> <<>>, raised |-> "IndexError"]
        ELSE Latest(split(tag))

\* what git prints for `git <option>=<dir> tag -l 'v[0-9]*'` in a repository with
\* these tags: a line for each, and nothing for an option it does not know
git_tag_l(option, tags) ==
    IF option = Chars("--git-dir") THEN Unlines(tags) ELSE <<>>

\* the command is spelled `git -git-dir=...`
get_next_tag(repo) == NextTagOf(git_tag_l(Chars("-git-dir"), RepoAt(repo).tags)).tag

-----------------------------------------------------------------------------
(* The Patch object: construction and repository resolution *)

Range(f) == {f[i] : i \in DOMAIN f}

Letters == Range(Chars("abcdefghijklmnopqrstuvwxyzABCDEFGHIJKLMNOPQRSTUVWXYZ"))

\* index of the first character of s at or after i that is in cs, or Len(s) + 1
IndexFrom(s, cs, i) ==
    IF \E k \in i..Len(s) : s[k] \in cs
    THEN CHOOSE k \in i..Len(s) : s[k] \in cs /\ \A j \in i..(k - 1) : s[j] \notin cs
    ELSE Len(s) + 1

\* str.split(c): the pieces between the occurrences of the character c
SplitOn(s, c) ==
    LET cuts == Sorted({i \in 1..Len(s) : s[i] = c} \cup {Len(s) + 1})
    IN  [k \in 1..Len(cuts) |->
            SubSeq(s, IF k = 1 THEN 1 ELSE cuts[k - 1] + 1, cuts[k] - 1)]

\* urllib.parse.urlparse, for URLs whose path carries no ';' parameters
urlparse(url) ==
    LET \* r3: the path and the query, the fragment taken off; q: where the '?' is
        Queried(scheme, netloc, r3, q) ==
            [scheme |-> scheme, netloc |-> netloc,
             path |-> SubSeq(r3, 1, q - 1), query |-> From(r3, q + 1)]
        Pathed(scheme, netloc, r3) == Queried(scheme, netloc, r3, IndexFrom(r3, {"?"}, 1))
        Unfragmented(scheme, netloc, r2) ==
            Pathed(scheme, netloc, SubSeq(r2, 1, IndexFrom(r2, {"#"}, 1) - 1))
        \* rest: the URL after 'scheme:'; e: where its '//netloc' ends
        Located(scheme, rest, hasNet, e) ==
            Unfragmented(scheme, IF hasNet THEN SubSeq(rest, 3, e - 1) ELSE <<>>,
                         IF hasNet THEN From(rest, e) ELSE rest)
        Schemed(scheme, rest) ==
            Located(scheme, rest, StartsWith(rest, <<"/", "/">>),
                    IndexFrom(rest, {"/", "?", "#"}, 3))
        \* c: where the first ':' is
        Coloned(c, hasScheme) ==
            Schemed(IF hasScheme THEN SubSeq(url, 1, c - 1) ELSE <<>>,
                    IF hasScheme THEN From(url, c + 1) ELSE url)
        First(c) ==
            Coloned(c, /\ c > 1 /\ c <= Len(url) /\ url[1] \in Letters
                       /\ \A k \in 1..(c - 1) :
                              url[k] \in Letters \cup Digits \cup {"+", "-", "."})
    IN  First(IndexFrom(url, {":"}, 1))

\* Config.get_repos: _canonicalize subscripts each path, which a Path object does
\* not allow
get_repos(cfg) ==
    [repos |-> cfg.repos, raised |-> IF cfg.searched THEN "none" ELSE "TypeError"]

\* Patch(commit, force=force): [patch, raised]
Patch(commit, force, cfg) ==
    [patch |-> [commit |-> commit, force |-> force, repo |-> <<>>, repourl |-> <<>>,
                in_mainline |-> FALSE, message |-> [hdrs |-> <<>>, payload |-> <<>>]],
     raised |-> IF get_repos(cfg).raised # "none" THEN get_repos(cfg).raised
                ELSE IF commit # <<>> /\ (Contains(<<"^">>, commit) \/ Contains(Chars("HEAD"), commit))
                THEN "InvalidCommitIDError" ELSE "none"]

\* del message[name]
del_header(m, name) == [m EXCEPT !.hdrs = SelectSeq(@, LAMBDA h : h.name # name)]

\* the X-Git-Url of a gitweb page names the repository and the commit; URLs here
\* carry no %-escapes, which unquote would decode
parse_commitdiff_header(P) ==
    LET \* args[k]: the value of the last `k=value` among the pieces of uc.query
        keyed(pieces, k) == {i \in DOMAIN pieces : StartsWith(pieces[i], k \o <<"=">>)}
        last(is) == CHOOSE i \in is : \A j \in is : j <= i
        arg(pieces, k) == From(pieces[last(keyed(pieces, k))], Len(k) + 2)
        \* P1: the patch with self.repourl set; h: args['h']
        Hashed(P1, h) ==
            [patch |-> [P1 EXCEPT !.commit = IF h # <<>> /\ P.commit = <<>> THEN h ELSE @,
                                  !.message = del_header(@, "X-Git-Url")],
             raised |-> "none"]
        Located(pieces, P1) ==
            IF keyed(pieces, <<"h">>) = {} THEN [patch |-> P1, raised |-> "KeyError"]
            ELSE Hashed(P1, arg(pieces, <<"h">>))
        Project(uc, pieces, p) ==
            Located(pieces,
                    [P EXCEPT !.repo = <<>>,
                              !.repourl = IF uc.netloc = Chars("git.kernel.org")
                                          THEN Chars("git://") \o uc.netloc
                                                   \o Chars("/pub/scm/") \o p
                                          ELSE uc.scheme \o <<"/", "/">> \o uc.netloc
                                                   \o uc.path \o p])
        Parsed(uc, pieces) ==
            IF uc.scheme = <<>> THEN [patch |-> P, raised |-> "InvalidURLError"]
            ELSE IF \E i \in DOMAIN pieces : ~Contains(<<"=">>, pieces[i])
                 THEN [patch |-> P, raised |-> "ValueError"]
            ELSE IF keyed(pieces, <<"p">>) = {}
                 THEN [patch |-> [P EXCEPT !.repo = <<>>], raised |-> "KeyError"]
            ELSE Project(uc, pieces, arg(pieces, <<"p">>))
        Url(uc) == Parsed(uc, SplitOn(uc.query, ";"))
    IN  Url(urlparse(GetHeader(P.message, "X-Git-Url")))

\* the loop of find_repo over repo_list, from its i-th entry
RECURSIVE FindRepoLoop(_, _, _)
FindRepoLoop(P, cfg, i) ==
    IF i > Len(cfg.repos) THEN [patch |-> P, raised |-> "none"]
    ELSE LET repo == cfg.repos[i]
             \* c: what get_commit answers; r: self.repourl, or the origin's URL
             Probed(c, r) ==
                 IF c.raised # "none" THEN [patch |-> P, raised |-> c.raised]
                 ELSE IF c.data = <<>> THEN FindRepoLoop(P, cfg, i + 1)
                 ELSE [patch |-> IF r # <<>> /\ InList(r, cfg.mainline_repos)
                                 THEN [P EXCEPT !.in_mainline = TRUE]
                                 ELSE [P EXCEPT !.repo = repo],
                       raised |-> "none"]
         IN  Probed(get_commit(P.commit, repo, P.force),
                    IF P.repourl # <<>> THEN P.repourl ELSE get_git_repo_url(P.repo))

find_repo(P, cfg) ==
    IF Truthy(P.message, "Git-repo") \/ P.in_mainline THEN [patch |-> P, raised |-> "none"]
    ELSE IF Truthy(P.message, "X-Git-Url") THEN parse_commitdiff_header(P)
    ELSE IF P.commit # <<>> THEN FindRepoLoop(P, cfg, 1)
    ELSE [patch |-> P, raised |-> "none"]

\* message.replace_header if the field is there, message.add_header otherwise
put_header(m, name, value) ==
    IF HasHeader(m, name) THEN replace_header(m, name, value) ELSE add_header(m, name, value)

\* re.match(r'From (\S{40})', msg_from)
UnixFromCommit(uf) ==
    IF /\ StartsWith(uf, Chars("From "))
       /\ Len(uf) >= 45
       /\ \A k \in 6..45 : uf[k] \notin WhiteSpace
    THEN SubSeq(uf, 6, 45) ELSE <<>>

\* re.search(r'git.kernel.org', url)
IsKernelOrg(url) == \E i \in 1..Len(url) : ReMatchAt(Chars("git.kernel.org"), 1, url, i)

\* from_email from `if self.in_mainline` on, P5 being the patch with Git-repo and
\* Git-commit set: Patch-mainline is set from the tag, and a merge is folded
FromTagged(P5) ==
    LET \* tag0: what get_tag answers
        Next(tag0) == IF tag0 = Chars("undefined") THEN get_next_tag(P5.repo) ELSE tag0
        Mainline(tag) == IF tag # <<>>
                         THEN [P5 EXCEPT !.message = put_header(@, "Patch-mainline", tag)]
                         ELSE P5
        P6 == IF P5.in_mainline THEN Mainline(Next(get_tag(P5.commit, P5.repo)))
              ELSE IF Truthy(P5.message, "Git-commit") /\ IsKernelOrg(P5.repourl)
                   THEN [P5 EXCEPT !.message =
                             put_header(@, "Patch-mainline",
                                        Chars("Queued in subsystem maintainer repo"))]
              ELSE P5
        Merged(P7, hm) ==
            IF hm.raised # "none" THEN [patch |-> P7, raised |-> hm.raised]
            ELSE [patch |-> [P7 EXCEPT !.message = hm.message], raised |-> "none"]
    IN  Merged(P6, handle_merge(P6.message))

\* the Git-repo field is added only
GitRepoed_HeaderOnly(P3, url) == [P3 EXCEPT !.message = add_header(@, "Git-repo", url)]

\* self.message.add_header('Git-repo', r); self.repourl = r
GitRepoed(P3, url) ==
    [P3 EXCEPT !.message = add_header(@, "Git-repo", url), !.repourl = url]

\* from_email once the repository is looked for (r2 is the patch then, or what was
\* raised): Git-repo and Git-commit are set
FromLocated(r2, cfg) ==
    LET P3 == r2.patch
        Committed(P4) ==
            IF P4.commit # <<>> /\ ~Truthy(P4.message, "Git-commit")
            THEN [P4 EXCEPT !.message = add_header(@, "Git-commit", P4.commit)]
            ELSE P4
        \* url: self.repourl, or failing that the URL of the repository's origin
        Repoed(url) ==
            IF InList(P3.repo, cfg.mainline_repos) THEN [P3 EXCEPT !.in_mainline = TRUE]
            ELSE IF /\ P3.repo # <<>> /\ ~Truthy(P3.message, "Git-repo")
                    /\ url # <<>> /\ ~InList(url, cfg.mainline_repos)
                 THEN GitRepoed(P3, url)
            ELSE P3
    IN  IF r2.raised # "none" THEN [patch |-> r2.patch, raised |-> r2.raised]
        ELSE FromTagged(Committed(Repoed(IF P3.repourl # <<>> THEN P3.repourl
                                         ELSE get_git_repo_url(P3.repo))))

\* from_email from `if not self.repo` on, r1 being the patch then, or what the
\* first find_repo raised
FromSought(r1, cfg) ==
    FromLocated(IF r1.raised = "none" /\ r1.patch.repo = <<>>
                THEN find_repo(r1.patch, cfg) ELSE r1, cfg)

\* from_email once the text is parsed into m0 and self.commit is settled: the patch
\* as the first find_repo call finds it
FromSettled(P, m0) ==
    LET msg_commit == UnixFromCommit(m0.unixfrom)
        P1 == [P EXCEPT !.message = m0,
                        !.commit = IF HasHeader(m0, "Git-commit")
                                   THEN GetHeader(m0, "Git-commit") ELSE @]
    IN  IF msg_commit # <<>>
           /\ (P1.commit = <<>> \/ ReMatchAt(P1.commit, 1, msg_commit, 1))
        THEN [P1 EXCEPT !.commit = msg_commit] ELSE P1

\* from_email once the text is parsed into m0: the repository is looked for, twice
\* if need be
FromParsed(P, cfg, m0) ==
    FromSought(IF UnixFromCommit(m0.unixfrom) # <<>> THEN find_repo(FromSettled(P, m0), cfg)
               ELSE [patch |-> FromSettled(P, m0), raised |-> "none"], cfg)

\* the find_repo calls that from_email(msg) makes on P, in order: the patch each
\* finds and what it answers
Sought(P, cfg, msg) ==
    LET Second(r1) ==
            IF r1.raised = "none" /\ r1.patch.repo = <<>>
            THEN << [pre |-> r1.patch, res |-> find_repo(r1.patch, cfg)] >> ELSE <<>>
        First(P2, m0) ==
            IF UnixFromCommit(m0.unixfrom) # <<>>
            THEN << [pre |-> P2, res |-> find_repo(P2, cfg)] >>
                     \o Second(find_repo(P2, cfg))
            ELSE Second([patch |-> P2, raised |-> "none"])
    IN  First(FromSettled(P, parsestr(msg)), parsestr(msg))

\* Patch.from_email(msg): [patch, raised]
from_email(P, cfg, msg) ==
    FromParsed(P, cfg, parsestr(msg))

\* Patch.find_commit(): [patch, found, raised], probing repo_list from its i-th entry
RECURSIVE FindCommitLoop(_, _, _)
FindCommitLoop(P, cfg, i) ==
    IF i > Len(cfg.repos) THEN [patch |-> P, found |-> FALSE, raised |-> "none"]
    ELSE LET repo == cfg.repos[i]
             commit == get_commit(P.commit, repo, P.force)
             Loaded(r) == [patch |-> r.patch, found |-> r.raised = "none", raised |-> r.raised]
         IN  IF commit.raised # "none"
             THEN [patch |-> P, found |-> FALSE, raised |-> commit.raised]
             ELSE IF commit.data = <<>> THEN FindCommitLoop(P, cfg, i + 1)
             ELSE Loaded(from_email([P EXCEPT !.commit = canonicalize_commit(P.commit, repo),
                                              !.repo = repo], cfg, commit.data))

find_commit(P, cfg) == FindCommitLoop(P, cfg, 1)

-----------------------------------------------------------------------------
(* File names: patchops.safe_filename and Patch.get_pathname *)

\* the leading run that `(([Rr][Ee]:|\[PATCH[^]]*\])[ \t]*)*` matches, taken off
RECURSIVE StripMarkers(_)
StripMarkers(s) ==
    IF Len(s) >= 3 /\ s[1] \in {"R", "r"} /\ s[2] \in {"E", "e"} /\ s[3] = ":"
    THEN StripMarkers(lstrip(From(s, 4)))
    ELSE IF StartsWith(s, Chars("[PATCH")) /\ IndexFrom(s, {"]"}, 7) <= Len(s)
    THEN StripMarkers(lstrip(From(s, IndexFrom(s, {"]"}, 7) + 1)))
    ELSE s

\* runs are left as they are
Squeeze_None(s, c) == s

\* re.sub(r'c+', 'c', s)
RECURSIVE Squeeze(_, _)
Squeeze(s, c) ==
    IF Len(s) < 2 THEN s
    ELSE IF s[1] = c /\ s[2] = c THEN Squeeze(Tail(s), c)
    ELSE <<s[1]>> \o Squeeze(Tail(s), c)

\* str.strip(cs)
RECURSIVE strip(_, _)
strip(s, cs) ==
    IF s # <<>> /\ s[1] \in cs THEN strip(Tail(s), cs)
    ELSE IF s # <<>> /\ s[Len(s)] \in cs THEN strip(SubSeq(s, 1, Len(s) - 1), cs)
    ELSE s

safe_filename(name) ==
    IF name = <<>> THEN name
    ELSE LET s1 == StripMarkers(name)
             s2 == [i \in 1..Len(s1) |->
                       IF s1[i] \in Letters \cup Digits \cup {"_", "."} THEN s1[i] ELSE "-"]
         IN  strip(Squeeze(Squeeze(s2, "-"), "."), {"-", ".", " "})

TRUNCATE == 64

\* str(Path(dirname) / filename), for a dirname that is '.' or an absolute path
PathJoin(dirname, filename) ==
    IF filename = <<>> THEN dirname
    ELSE IF dirname = <<".">> THEN filename ELSE dirname \o <<"/">> \o filename

\* the name is never cut
Truncated_Never(filename, truncate_chars) == filename

\* if truncate_chars < 0: filename = filename[0:truncate_chars]
Truncated(filename, truncate_chars) ==
    IF truncate_chars < 0 THEN SubSeq(filename, 1, Len(filename) + truncate_chars)
    ELSE filename

\* Patch.get_pathname(dirname, prefix, suffix): [name, raised]
get_pathname(m, dirname, prefix, suffix) ==
    IF ~Truthy(m, "Subject") THEN [name |-> <<>>, raised |-> "InvalidPatchError"]
    ELSE LET Cut(filename, truncate_chars) == Truncated(filename, truncate_chars)
             Affixed(filename) ==
                 prefix \o Cut(filename, TRUNCATE - Len(filename) - Len(prefix \o suffix))
                     \o suffix
             Joined(filename) ==
                 IF dirname # <<>> THEN PathJoin(dirname, filename) ELSE filename
         IN  [name |-> Joined(Affixed(safe_filename(GetHeader(m, "Subject")))),
              raised |-> "none"]

-----------------------------------------------------------------------------
(* exportpatch.export_patch: one commit exported, to a file or to stdout.  *)
(* A result is [ret, raised, world, steps, filtered, message]: the value   *)
(* returned (-1 when an exception leaves the function instead), the world  *)
(* afterwards, the Patch methods called in order, the message as each      *)
(* filter call left it, and the message at the end.  The trace lines that  *)
(* patchops.git_dir writes to stderr are not kept.                         *)

\* the directories that exist
Dirs == {Chars("."), Chars("/out")}

\* print(text, file=sys.stdout or sys.stderr)
Say(w, stream, text) == [w EXCEPT ![stream] = Append(@, text)]

FileExists(w, fn) == \E f \in w.files : f.name = fn

\* open(fn, 'w') and print(text, file=f)
WriteFile(w, fn, text) ==
    [w EXCEPT !.files = {f \in @ : f.name # fn} \cup {[name |-> fn, text |-> text \o <<NL>>]}]

\* Path(fn).parent and Path(fn).name
LastSlash(fn) == IF \E i \in DOMAIN fn : fn[i] = "/"
                 THEN CHOOSE i \in DOMAIN fn : fn[i] = "/" /\ \A j \in (i + 1)..Len(fn) : fn[j] # "/"
                 ELSE 0

Parent(fn) == IF LastSlash(fn) = 0 THEN Chars(".") ELSE SubSeq(fn, 1, LastSlash(fn) - 1)

BaseName(fn) == From(fn, LastSlash(fn) + 1)

Result(ret, raised, w, tr, m) ==
    [ret |-> ret, raised |-> raised, world |-> w, steps |-> tr.steps,
     filtered |-> tr.filtered, message |-> m]

\* from add_signature to the return: the patch is signed, then written or printed
ExportFinish(p, commit, options, prefix, suffix, cfg, w, tr) ==
    LET tr1 == [tr EXCEPT !.steps = Append(@, "add_signature")]
        \* m: the signed message; pn: what get_pathname answers for it
        \* fn: the name written to; w2: the world once the name is printed
        Written(m, fn, w2) ==
            IF Parent(fn) \notin Dirs
            THEN Result(1, "none",
                        Say(w2, "stderr", Chars("[Errno 2] No such file or directory: '")
                                              \o fn \o <<"'">>), tr1, m)
            ELSE Result(0, "none", WriteFile(w2, fn, as_string(m)), tr1, m)
        Renamed(m, pn, clash, fn) ==
            Written(m, fn,
                    Say(IF clash
                        THEN Say(w, "stderr", pn.name \o Chars(" already exists. Using ") \o fn)
                        ELSE w,
                        "stdout", BaseName(fn)))
        Clashed(m, pn, clash) ==
            Renamed(m, pn, clash,
                    IF clash THEN pn.name \o <<"-">> \o SubSeq(commit, 1, 8) ELSE pn.name)
        Placed(m, pn) ==
            IF pn.raised # "none" THEN Result(-1, pn.raised, w, tr1, m)
            ELSE Clashed(m, pn, FileExists(w, pn.name) /\ ~options.force)
        Signed(m) ==
            IF ~options.write THEN Result(0, "none", Say(w, "stdout", as_string(m)), tr1, m)
            ELSE Placed(m, get_pathname(m, options.dir, prefix, suffix))
    IN  Signed(add_signature(p.message, cfg, options.signed_off_by))

\* a plausible slip: the skip is reported, but the function does not return there
ExportSkip_NoReturn(p, commit, options, prefix, suffix, cfg, w, tr) ==
    ExportFinish(p, commit, options, prefix, suffix, cfg,
                 Say(w, "stderr", Chars("Commit ") \o commit \o Chars(" is now empty. Skipping.")),
                 tr)

\* the two `except EmptyCommitError` handlers
ExportSkip(p, commit, options, prefix, suffix, cfg, w, tr) ==
    Result(0, "none",
           Say(w, "stderr", Chars("Commit ") \o commit \o Chars(" is now empty. Skipping.")),
           tr, p.message)

\* one filter call of export_patch, made only when the option lists paths
ExportFilter(m, paths, exclude) ==
    IF paths # <<>> THEN filter(m, paths, exclude) ELSE [message |-> m, raised |-> "skipped"]

\* the trace after a filter call that answered f
Traced(tr, f) ==
    IF f.raised = "skipped" THEN tr
    ELSE [steps |-> Append(tr.steps, "filter"), filtered |-> Append(tr.filtered, f.message)]

\* export_patch from the -X filter on; p2: the patch after -x, f2: what the -X filter
\* answered, tr: the trace up to it
ExportExcluded(p2, f2, commit, options, prefix, suffix, cfg, w, tr) ==
    IF f2.raised = "EmptyCommitError"
    THEN ExportSkip([p2 EXCEPT !.message = f2.message], commit, options, prefix,
                    suffix, cfg, w, Traced(tr, f2))
    ELSE IF f2.raised \notin {"none", "skipped"}
         THEN Result(-1, f2.raised, w, Traced(tr, f2), f2.message)
    ELSE ExportFinish([p2 EXCEPT !.message = f2.message], commit, options, prefix,
                      suffix, cfg, w, Traced(tr, f2))

\* export_patch from the -x filter on; p1: the patch after add_references, f1: what
\* the -x filter answered, tr: the trace up to it
ExportExtracted(p1, f1, commit, options, prefix, suffix, cfg, w, tr) ==
    IF f1.raised = "EmptyCommitError"
    THEN ExportSkip([p1 EXCEPT !.message = f1.message], commit, options, prefix,
                    suffix, cfg, w, Traced(tr, f1))
    ELSE IF f1.raised \notin {"none", "skipped"}
         THEN Result(-1, f1.raised, w, Traced(tr, f1), f1.message)
    ELSE ExportExcluded([p1 EXCEPT !.message = f1.message],
                        ExportFilter(f1.message, options.exclude, TRUE),
                        commit, options, prefix, suffix, cfg, w, Traced(tr, f1))

\* export_patch once find_commit has answered fc
ExportFound(fc, commit, options, prefix, suffix, cfg, w) ==
    LET tr0 == [steps |-> <<"find_commit">>, filtered |-> <<>>]
        tr1 == IF options.reference # <<>>
               THEN [tr0 EXCEPT !.steps = Append(@, "add_references")] ELSE tr0
        p1 == IF options.reference # <<>>
              THEN [fc.patch EXCEPT !.message = add_references(@, options.reference)]
              ELSE fc.patch
    IN  IF fc.raised # "none" THEN Result(-1, fc.raised, w, tr0, fc.patch.message)
        ELSE IF ~fc.found
             THEN Result(1, "none",
                         Say(w, "stderr", Chars("Could not locate commit \"") \o commit
                                              \o Chars("\"; Skipping.")),
                         tr0, fc.patch.message)
        ELSE ExportExtracted(p1, ExportFilter(p1.message, options.extract, FALSE),
                             commit, options, prefix, suffix, cfg, w, tr1)

export_patch(commit, options, prefix, suffix, cfg, w) ==
    LET p == Patch(commit, options.force, cfg)
    IN  IF p.raised = "TypeError"     \* not a PatchError: it is not caught
        THEN Result(1, p.raised, w, [steps |-> <<>>, filtered |-> <<>>], p.patch.message)
        ELSE IF p.raised # "none"
        THEN Result(1, "none",
                    Say(w, "stderr",
                        Chars("Commit IDs must be hashes, not relative references. ")
                            \o Chars("HEAD and ^ are not allowed.")),
                    [steps |-> <<>>, filtered |-> <<>>], p.patch.message)
        ELSE ExportFound(find_commit(p.patch, cfg), commit, options, prefix, suffix, cfg, w)

-----------------------------------------------------------------------------
(* Exporting: one run of export_patch for a commit named on the command    *)
(* line, into a directory that may already hold a patch of that name       *)

\* the commits asked for: full hashes, abbreviations, an unknown one, a relative one
CommitArgs ==
    { Hash("c"), Hash("d"), Hash("e"), Hash("f"), Hash("a"), Hash("b"),
      Repeat("c", 8), Repeat("e", 8), Chars("0123abcd"), Chars("HEAD") }

NoOptions ==
    [reference |-> <<>>, extract |-> <<>>, exclude |-> <<>>, signed_off_by |-> FALSE,
     write |-> FALSE, dir |-> Chars("."), force |-> FALSE]

\* the command lines tried: -w, -d, -f, -x, -X, -F and -S in the combinations that
\* tell the paths through export_patch apart
OptionSets ==
    { NoOptions,
      [NoOptions EXCEPT !.write = TRUE],
      [NoOptions EXCEPT !.write = TRUE, !.dir = Chars("/out"), !.force = TRUE],
      [NoOptions EXCEPT !.write = TRUE, !.dir = Chars("/missing")],
      [NoOptions EXCEPT !.extract = << Chars("A") >>],
      [NoOptions EXCEPT !.extract = << Chars("/nonexistent") >>, !.write = TRUE],
      [NoOptions EXCEPT !.exclude = << Chars("A") >>, !.write = TRUE],
      [NoOptions EXCEPT !.extract = << Chars("d/") >>, !.exclude = << Chars("d/B") >>,
                        !.write = TRUE],
      [NoOptions EXCEPT !.reference = << Chars("bsc#1") >>, !.signed_off_by = TRUE],
      [NoOptions EXCEPT !.exclude = << Chars("A"), Chars("d/") >>],
      [NoOptions EXCEPT !.extract = << Chars("A") >>, !.exclude = << Chars("x/") >>,
                        !.signed_off_by = TRUE, !.write = TRUE, !.force = TRUE] }

\* -n and -s: the order number put before the name, '.patch' put after it
Affixes == { <<<<>>, <<>>>>, <<Chars("0001-"), Chars(".patch")>> }

\* what the output directories hold beforehand
Worlds ==
    { EmptyWorld,
      [EmptyWorld EXCEPT !.files =
          { [name |-> Chars("Fix-the-frob"), text |-> Chars("old\n")],
            [name |-> Chars("/out/Fix-the-frob"), text |-> Chars("old\n")] }] }

InitExport ==
    /\ message = NoMessage
    /\ config = ExportConfig
    /\ call \in {[op |-> "pending", commit |-> c, options |-> o, affix |-> a] :
                    c \in CommitArgs, o \in OptionSets, a \in Affixes}
    /\ ncalls = 0
    /\ world \in Worlds
    /\ patch = NoPatch

ExportPatch ==
    /\ call.op = "pending"
    /\ \E r \in {export_patch(call.commit, call.options, call.affix[1], call.affix[2],
                              config, world)} :
           /\ message' = r.message
           /\ world' = r.world
           /\ call' = [op |-> "export_patch", commit |-> call.commit,
                       options |-> call.options, affix |-> call.affix,
                       ret |-> r.ret, raised |-> r.raised, steps |-> r.steps,
                       filtered |-> r.filtered, before |-> world]
    /\ ncalls' = ncalls + 1
    /\ UNCHANGED <<config, patch>>

NextExport == ExportPatch

SpecExport == InitExport /\ [][NextExport]_vars

\* some filter call of the run left a message without a file section
FilterLeftNothing ==
    /\ call.op = "export_patch"
    /\ \E i \in DOMAIN call.filtered : SectionFiles(call.filtered[i].payload) = {}

\* C4: when the -x or the -X filter leaves no file section, export_patch returns 0
\* with 'Commit <commit> is now empty. Skipping.' as its one report on stderr, and
\* nothing after the filter is done: add_signature is not called, no file is created
\* or overwritten, nothing is printed on stdout.
C4_EmptyFilterSkips ==
    FilterLeftNothing =>
        /\ call.ret = 0
        /\ call.raised = "none"
        /\ world.stderr = Append(call.before.stderr,
                                 Chars("Commit ") \o call.commit \o Chars(" is now empty. Skipping."))
        /\ \A i \in DOMAIN call.steps : call.steps[i] # "add_signature"
        /\ world.files = call.before.files
        /\ world.stdout = call.before.stdout

\* the -X filter emptied what the -x filter had kept, in a run that was to write a
\* file over an existing one
C4_Witness ==
    /\ FilterLeftNothing
    /\ Len(call.filtered) = 2
    /\ SectionFiles(call.filtered[1].payload) # {}
    /\ call.options.write
    /\ call.before.files # {}

-----------------------------------------------------------------------------
(* Resolving: a Patch is constructed for a commit, then find_commit,       *)
(* find_repo, from_email, parse_commitdiff_header, add_references and      *)
(* filter are called on it in any order.  A message of None is NoMessage;  *)
(* every email read here has a field, so no parsed message is NoMessage.   *)

MaxResolveCalls == 2    \* method calls on one Patch after its construction

\* the Patch object of the state, as the methods take it
Obj(pt, m) ==
    [commit |-> pt.commit, force |-> pt.force, repo |-> pt.repo, repourl |-> pt.repourl,
     in_mainline |-> pt.in_mainline, message |-> m]

\* self.commit, self.force, self.repo, self.repourl and self.in_mainline of a Patch
Fields(P) ==
    [commit |-> P.commit, force |-> P.force, repo |-> P.repo, repourl |-> P.repourl,
     in_mainline |-> P.in_mainline]

\* the commit arguments a Patch is made with
ResolveCommits ==
    { <<>>, Hash("c"), Hash("e"), Hash("f"), Chars("0123abcd"), Chars("eeeeeeee"),
      Chars("HEAD"), Chars("cccc^"), Chars("xHEADx"), Chars("head") }

SmallDiff ==
    Chars("diff --git a/A b/A\n--- a/A\n+++ b/A\n@@ -1 +1 @@\n-old\n+new\n")

\* the patch files read with from_email: what git prints for a commit of each
\* repository, a file that names its repository, two that name a gitweb page (the
\* first with the line git format-patch begins a file with), and a bare one
ResolveEmails ==
    { o.data : o \in { o \in UNION { r.objects : r \in Repositories } :
                         o.hash \in {Hash("c"), Hash("f")} } }
    \cup
    { Chars("From: Al <al@y.org>\nSubject: Fix the frob\nGit-commit: ") \o Hash("c")
          \o Chars("\nGit-repo: git://git.example.org/x.git\n\nIt was off.\n---\n") \o SmallDiff,
      Chars("From ") \o Hash("c") \o Chars(" Mon Sep 17 00:00:00 2001\n")
          \o Chars("From: Al <al@y.org>\nSubject: Fix the frob\n")
          \o Chars("X-Git-Url: http://git.example.org/?p=x.git;a=commitdiff;h=") \o Hash("c")
          \o Chars("\n\nIt was off.\n---\n") \o SmallDiff,
      Chars("Subject: Fix the frob\n")
          \o Chars("X-Git-Url: http://git.kernel.org/?p=linux/kernel/git/s.git;h=") \o Hash("d")
          \o Chars("\n\nIt was off.\n---\n") \o SmallDiff,
      Chars("Subject: Fix the frob\n\nIt was off.\n---\n") \o SmallDiff }

InitResolve ==
    /\ message = NoMessage
    /\ config \in {ExportConfig, UnsearchedConfig}
    /\ call \in {[op |-> "pending", commit |-> c, force |-> f] :
                    c \in ResolveCommits, f \in BOOLEAN}
    /\ ncalls = 0
    /\ world = EmptyWorld
    /\ patch = NoPatch

\* the record of a call: the object before it, how the call ended, and the
\* find_repo calls made on the way
Called(op, arg, raised, found, sought) ==
    [op |-> op, arg |-> arg, pre |-> patch, prem |-> message, raised |-> raised,
     found |-> found, sought |-> sought]

\* Patch(commit=c, force=f)
Construct ==
    /\ call.op = "pending"
    /\ \E r \in {Patch(call.commit, call.force, config)} :
          /\ patch' = IF r.raised = "none" THEN Fields(r.patch) ELSE patch
          /\ call' = Called("Patch", call.commit, r.raised, FALSE, <<>>)
    /\ UNCHANGED <<message, config, ncalls, world>>

\* there is a Patch object, and it may be called once more
Alive ==
    /\ call.op # "pending"
    /\ ~(call.op = "Patch" /\ call.raised # "none")
    /\ ncalls < MaxResolveCalls

\* the state after a method that answered r = [patch, raised]
Returned(op, arg, r, found, sought) ==
    /\ patch' = Fields(r.patch)
    /\ message' = r.patch.message
    /\ call' = Called(op, arg, r.raised, found, sought)
    /\ ncalls' = ncalls + 1
    /\ UNCHANGED <<config, world>>

\* the state after a method that fails on a message that is None: subscripting it
\* raises TypeError, calling a method of it AttributeError
RaisedOnNone(op, raised) ==
    /\ call' = Called(op, <<>>, raised, FALSE, <<>>)
    /\ ncalls' = ncalls + 1
    /\ UNCHANGED <<message, config, world, patch>>

FindCommit ==
    /\ Alive
    /\ \E r \in {find_commit(Obj(patch, message), config)} :
          Returned("find_commit", <<>>, r, r.found, <<>>)

FindRepo ==
    /\ Alive
    /\ IF message = NoMessage THEN RaisedOnNone("find_repo", "TypeError")
       ELSE \E r \in {find_repo(Obj(patch, message), config)} :
                Returned("find_repo", <<>>, r, FALSE,
                         << [pre |-> Obj(patch, message), res |-> r] >>)

FromEmail ==
    /\ Alive
    /\ \E msg \in ResolveEmails :
          \E r \in {from_email(Obj(patch, message), config, msg)} :
              Returned("from_email", msg, r, FALSE, Sought(Obj(patch, message), config, msg))

\* without an X-Git-Url field, unquote(None) raises TypeError
ParseCommitdiffHeader ==
    /\ Alive
    /\ IF ~HasHeader(message, "X-Git-Url") THEN RaisedOnNone("parse_commitdiff_header", "TypeError")
       ELSE \E r \in {parse_commitdiff_header(Obj(patch, message))} :
                Returned("parse_commitdiff_header", <<>>, r, FALSE, <<>>)

\* a tag edit: add_references(['bsc#1'])
EditTags ==
    /\ Alive
    /\ IF message = NoMessage THEN RaisedOnNone("add_references", "TypeError")
       ELSE /\ message' = add_references(message, << Chars("bsc#1") >>)
            /\ call' = Called("add_references", <<>>, "none", FALSE, <<>>)
            /\ ncalls' = ncalls + 1
            /\ UNCHANGED <<config, world, patch>>

\* filter(['A'])
FilterResolved ==
    /\ Alive
    /\ IF message = NoMessage THEN RaisedOnNone("filter", "AttributeError")
       ELSE \E r \in {filter(message, << Chars("A") >>, FALSE)} :
               /\ message' = r.message
               /\ call' = Called("filter", <<>>, r.raised, FALSE, <<>>)
               /\ ncalls' = ncalls + 1
               /\ UNCHANGED <<config, world, patch>>

NextResolve ==
    \/ Construct
    \/ FindCommit
    \/ FindRepo
    \/ FromEmail
    \/ ParseCommitdiffHeader
    \/ EditTags
    \/ FilterResolved

SpecResolve == InitResolve /\ [][NextResolve]_vars

\* the first repository of the list in which git shows the commit, as a sequence of
\* none or one
Discovered(commit, cfg) ==
    LET has == {i \in DOMAIN cfg.repos : Named(cfg.repos[i], commit) # {}}
    IN  IF has = {} THEN <<>>
        ELSE << cfg.repos[CHOOSE i \in has : \A j \in has : i <= j] >>

\* the value of the last `k=` argument of a gitweb URL's query
UrlArg(url, k) ==
    LET pieces == SplitOn(From(url, IndexFrom(url, {"?"}, 1) + 1), ";")
        ks == {i \in DOMAIN pieces : StartsWith(pieces[i], k \o <<"=">>)}
    IN  From(pieces[CHOOSE i \in ks : \A j \in ks : j <= i], Len(k) + 2)

\* one find_repo call, from the patch `pre` to the answer `res`, follows the order
FindRepoInOrder(pre, res, cfg) ==
    LET post == res.patch
        url == GetHeader(pre.message, "X-Git-Url")
        d == Discovered(pre.commit, cfg)
    IN  IF Truthy(pre.message, "Git-repo") \/ pre.in_mainline
        THEN post = pre
        ELSE IF Truthy(pre.message, "X-Git-Url")
        THEN /\ ~HasHeader(post.message, "X-Git-Url")
             /\ post.repourl # <<>>
             /\ EndsWith(post.repourl, UrlArg(url, <<"p">>))
             /\ post.commit = IF pre.commit = <<>> THEN UrlArg(url, <<"h">>) ELSE pre.commit
             /\ post.in_mainline = pre.in_mainline
        ELSE IF pre.commit # <<>> /\ d # <<>>
        THEN IF InList(get_git_repo_url(d[1]), cfg.mainline_repos)
             THEN post.in_mainline
             ELSE post.repo = d[1] /\ ~post.in_mainline
        ELSE post = pre

\* C12: every find_repo call that returns follows the priority order: with a Git-repo
\* field or in_mainline set nothing changes; otherwise with an X-Git-Url field repourl
\* is built from its p argument, commit taken from its h argument if unset, and the
\* field removed; otherwise, at the first configured repository that has the commit,
\* in_mainline is set if that repository's remote URL is a mainline URL and repo is set
\* to that repository if not.
C12_FindRepoPriority ==
    call.op \in {"find_repo", "from_email"} =>
        \A i \in DOMAIN call.sought :
            call.sought[i].res.raised = "none" =>
                FindRepoInOrder(call.sought[i].pre, call.sought[i].res, config)

\* the methods of a Patch that the resolution claims range over
ResolveOps ==
    {"find_commit", "find_repo", "from_email", "parse_commitdiff_header",
     "add_references", "filter"}

\* C13: over every call of find_commit, find_repo, from_email,
\* parse_commitdiff_header, a tag edit or filter, in_mainline never goes from true
\* back to false, and a repo (a repourl) that holds a value keeps that value.
C13_ResolutionWriteOnce ==
    call.op \in ResolveOps =>
        /\ call.pre.in_mainline => patch.in_mainline
        /\ call.pre.repo # <<>> => patch.repo = call.pre.repo
        /\ call.pre.repourl # <<>> => patch.repourl = call.pre.repourl

\* from_email or find_commit has returned
Resolved == call.op \in {"from_email", "find_commit"} /\ call.raised = "none"

\* C14 as stated: after from_email or find_commit has returned, a Patch does not hold
\* both a repo and a repourl.
C14_RepoExcludesRepourl ==
    Resolved => ~(patch.repo # <<>> /\ patch.repourl # <<>>)

\* C14, amended: repo and repourl are not exclusive. After from_email or find_commit
\* has returned with a repo that is not classified in mainline, the Patch holds a
\* repourl as well and its message a Git-repo field; a repo is held without a repourl
\* only by a patch in mainline.
C14_RepoCarriesUrl ==
    Resolved /\ patch.repo # <<>> /\ ~patch.in_mainline =>
        patch.repourl # <<>> /\ Truthy(message, "Git-repo")

\* find_commit found the commit in a repository outside mainline
C14_Witness ==
    /\ call.op = "find_commit" /\ call.raised = "none" /\ call.found
    /\ call.pre.repo = <<>> /\ call.pre.repourl = <<>>
    /\ patch.repo # <<>> /\ ~patch.in_mainline
    /\ patch.repourl = get_git_repo_url(patch.repo)

-----------------------------------------------------------------------------
(* The next tag of a repository: patchops.get_next_tag *)

TagNames ==
    { Chars(t) : t \in {"v5.19", "v6.1-rc1", "v6.1-rc2", "v6.1-rc3", "v6.1", "v6.2-rc1",
                        "v6.2-rc10"} }

\* a repository's tags as git lists them, in the order of their names
RECURSIVE Listing(_)
Listing(ts) ==
    IF ts = {} THEN <<>>
    ELSE LET least == CHOOSE t \in ts : \A u \in ts : StrLeq(t, u)
         IN  <<least>> \o Listing(ts \ {least})

InitTags ==
    /\ message = NoMessage
    /\ config = DefaultConfig
    /\ call = [op |-> "pending"]
    /\ ncalls = 0
    /\ world \in { [tags |-> Listing(ts)] : ts \in SUBSET TagNames }
    /\ patch = NoPatch

GetNextTag ==
    /\ call.op = "pending"
    /\ \E listed \in {git_tag_l(Chars("-git-dir"), world.tags)} :
          call' = [op |-> "get_next_tag", listed |-> listed, res |-> NextTagOf(listed)]
    /\ ncalls' = ncalls + 1
    /\ UNCHANGED <<message, config, world, patch>>

NextTags == GetNextTag

SpecTags == InitTags /\ [][NextTags]_vars

\* a tag v<major>.<minor>[-rc<n>] read as the claim reads it: <<major, minor, n>>,
\* n = 0 for a release
Version(t) ==
    LET Read(m) == <<Val(m.g1), Val(m.g2), IF m.g4 = <<>> THEN 0 ELSE Val(m.g4)>>
    IN  Read(ReleaseForm(t))

\* version order: by major, then minor, a release above its candidates, then by n
VersionBelow(a, b) ==
    \/ a[1] < b[1]
    \/ a[1] = b[1] /\ a[2] < b[2]
    \/ a[1] = b[1] /\ a[2] = b[2] /\ a[3] # 0 /\ (b[3] = 0 \/ a[3] < b[3])

Greatest(tags) ==
    CHOOSE i \in DOMAIN tags :
        \A j \in DOMAIN tags : j = i \/ VersionBelow(Version(tags[j]), Version(tags[i]))

Mentions(text, t) == \E i \in 1..Len(text) : StartsWithAt(text, i, t)

VersionName(maj, min) == Chars("v") \o Dec(maj) \o Chars(".") \o Dec(min)

\* C15: get_next_tag takes the greatest tag in version order; after a release
\* v<major>.<minor> it answers v<major>.<minor+1>-rc1, after v<major>.<minor>-rc<n> an
\* answer that names v<major>.<minor> and v<major>.<minor>-rc<n+1>, and none for a
\* repository without tags.
C15_NextTagFromGreatest ==
    call.op = "get_next_tag" =>
        /\ call.res.raised = "none"
        /\ IF world.tags = <<>> THEN call.res.tag = <<>>
           ELSE LET g == Version(world.tags[Greatest(world.tags)])
                IN  IF g[3] = 0
                    THEN call.res.tag = VersionName(g[1], g[2] + 1) \o Chars("-rc1")
                    ELSE /\ Mentions(call.res.tag, VersionName(g[1], g[2]))
                         /\ Mentions(call.res.tag,
                                     VersionName(g[1], g[2]) \o Chars("-rc") \o Dec(g[3] + 1))

\* C16: in a repository whose tags are v6.1, v6.1-rc1, v6.1-rc2 and v6.1-rc3 the next
\* tag is v6.1-rc4.
C16_NextTagExample ==
    /\ call.op = "get_next_tag"
    /\ world.tags = << Chars("v6.1"), Chars("v6.1-rc1"), Chars("v6.1-rc2"), Chars("v6.1-rc3") >>
    => Mentions(call.res.tag, Chars("v6.1-rc4"))

-----------------------------------------------------------------------------
(* File names: safe_filename on subjects, get_pathname with prefixes and suffixes *)

RECURSIVE Times(_, _)
Times(s, n) == IF n = 0 THEN <<>> ELSE s \o Times(s, n - 1)

\* leading markers of a Subject, and what follows them
MarkerRuns ==
    { <<>>, Chars("Re: "), Chars("[PATCH v2 1/3] "), Chars("RE:re:  [PATCH]\t"),
      Chars("[PATCH] Re: ") }

SubjectBodies ==
    { Chars("Fix foo/bar.c"), Chars("add x: y..z--w !"), Chars(" spaced out"), Chars("..."),
      Chars("a"), Chars("Re fix [not] a tag."), Chars("[RFC] keep -.- this"),
      Chars("mm: ") \o Times(Chars("long_name "), 6),
      Chars("net/") \o Repeat("x", 59) \o Chars(". end") }

NamePrefixes == { <<>>, Chars("0001-"), Repeat("p", 60) }

NameSuffixes == { <<>>, Chars(".patch"), Chars(".some.long") }

NameDirs == { <<>>, Chars("."), Chars("/out") }

SubjectOnly(subject) ==
    [unixfrom |-> <<>>, hdrs |-> << [name |-> "Subject", value |-> subject] >>,
     payload |-> <<>>]

InitNames ==
    /\ \E markers \in MarkerRuns, text \in SubjectBodies :
          /\ call = [op |-> "pending", run |-> markers, body |-> text]
          /\ message = SubjectOnly(markers \o text)
    /\ config = DefaultConfig
    /\ ncalls = 0
    /\ world = EmptyWorld
    /\ patch = NoPatch

\* safe_filename(subject)
SafeFilename ==
    /\ call.op = "pending"
    /\ call' = [op |-> "safe_filename", run |-> call.run, body |-> call.body,
                arg |-> call.run \o call.body, name |-> safe_filename(call.run \o call.body)]
    /\ ncalls' = ncalls + 1
    /\ UNCHANGED <<message, config, world, patch>>

\* safe_filename on what safe_filename returned
SafeFilenameAgain ==
    /\ call.op = "safe_filename"
    /\ call' = [op |-> "safe_filename_again", run |-> call.run, body |-> call.body,
                arg |-> call.name, name |-> safe_filename(call.name)]
    /\ ncalls' = ncalls + 1
    /\ UNCHANGED <<message, config, world, patch>>

\* Patch.get_pathname(dirname, prefix, suffix)
GetPathname ==
    /\ call.op = "pending"
    /\ \E dirname \in NameDirs, prefix \in NamePrefixes, suffix \in NameSuffixes :
          \E r \in {get_pathname(message, dirname, prefix, suffix)} :
              call' = [op |-> "get_pathname", dirname |-> dirname, prefix |-> prefix,
                       suffix |-> suffix, name |-> r.name, raised |-> r.raised]
    /\ ncalls' = ncalls + 1
    /\ UNCHANGED <<message, config, world, patch>>

NextNames ==
    \/ SafeFilename
    \/ SafeFilenameAgain
    \/ GetPathname

SpecNames == InitNames /\ [][NextNames]_vars

\* s begins with `Re:` in either case, or with `[PATCH ...]`
BeginsWithMarker(s) ==
    \/ Len(s) >= 3 /\ s[1] \in {"R", "r"} /\ s[2] \in {"E", "e"} /\ s[3] = ":"
    \/ StartsWith(s, Chars("[PATCH")) /\ \E i \in 7..Len(s) : s[i] = "]"

\* C17: safe_filename of a non-empty subject strips the leading run of markers (the
\* name is that of the text behind the run), the name has only letters, digits, `_`,
\* `.` and `-`, no `--` and no `..`, it neither begins nor ends with `-`, `.` or a
\* space, and safe_filename of the name is the name.
C17_SafeFilename ==
    /\ call.op = "safe_filename" =>
          /\ ~BeginsWithMarker(lstrip(call.body)) => call.name = safe_filename(lstrip(call.body))
          /\ \A i \in 1..Len(call.name) :
                /\ call.name[i] \in Letters \cup Digits \cup {"_", ".", "-"}
                /\ i < Len(call.name) =>
                      ~(call.name[i] = call.name[i + 1] /\ call.name[i] \in {"-", "."})
          /\ call.name # <<>> =>
                /\ call.name[1] \notin {"-", ".", " "}
                /\ call.name[Len(call.name)] \notin {"-", ".", " "}
          /\ call.name = safe_filename(call.arg)
    /\ call.op = "safe_filename_again" => call.name = call.arg

\* safe_filename was applied to its own answer for a subject with markers in front
\* and characters to replace
C17_Witness ==
    /\ call.op = "safe_filename_again"
    /\ call.run = Chars("RE:re:  [PATCH]\t")
    /\ call.body = Chars("add x: y..z--w !")
    /\ call.arg = Chars("add-x-y.z-w")

\* the name without its directory
NameInDir(dirname, name) ==
    IF dirname = <<>> THEN name
    ELSE IF name = dirname THEN <<>>
    ELSE IF dirname = Chars(".") THEN name ELSE From(name, Len(dirname) + 2)

\* the name is prefix + the first k characters of the sanitized Subject + suffix, k
\* being all of them when that fits in TRUNCATE and as many as fit if not
CutToFit(c, subject) ==
    LET fn == safe_filename(subject)
        base == NameInDir(c.dirname, c.name)
        total == Len(c.prefix) + Len(fn) + Len(c.suffix)
        k == IF total <= TRUNCATE THEN Len(fn) ELSE Len(fn) - (total - TRUNCATE)
    IN  /\ k >= 0
        /\ base = c.prefix \o SubSeq(fn, 1, k) \o c.suffix
        /\ Len(base) <= TRUNCATE

\* C18 as stated: the file name get_pathname returns is prefix + a leading part of
\* the sanitized Subject + suffix, never longer than truncate, the Subject cut by
\* exactly the excess and left whole when the name fits.
C18_NeverExceedsTruncate ==
    call.op = "get_pathname" /\ call.raised = "none" =>
        CutToFit(call, GetHeader(message, "Subject"))

\* C18, amended: that holds when prefix and suffix together are no longer than
\* truncate; when they are longer the sanitized Subject is dropped whole and the name
\* is prefix + suffix, longer than truncate.
C18_FitsUnlessAffixesTooLong ==
    call.op = "get_pathname" /\ call.raised = "none" =>
        IF Len(call.prefix) + Len(call.suffix) <= TRUNCATE
        THEN CutToFit(call, GetHeader(message, "Subject"))
        ELSE NameInDir(call.dirname, call.name) = call.prefix \o call.suffix

\* a Subject was cut: the name is exactly TRUNCATE long and both affixes are whole
C18_Witness ==
    /\ call.op = "get_pathname" /\ call.raised = "none"
    /\ call.prefix = Chars("0001-") /\ call.suffix = Chars(".patch")
    /\ call.dirname = Chars("/out")
    /\ Len(safe_filename(GetHeader(message, "Subject"))) > TRUNCATE - 11
    /\ Len(call.name) = TRUNCATE + 5

\* C19: Patch(commit=c) raises InvalidCommitIDError exactly when c is not empty and
\* has a `^` or the text HEAD in it; with any other c the Patch is made, with repo,
\* repourl and message unset and in_mainline false.
C19_RejectsRelativeReferences ==
    call.op = "Patch" =>
        /\ call.raised = "InvalidCommitIDError" <=>
              /\ call.arg # <<>>
              /\ \/ \E i \in 1..Len(call.arg) : call.arg[i] = "^"
                 \/ Mentions(call.arg, Chars("HEAD"))
        /\ call.raised # "InvalidCommitIDError" =>
              /\ call.raised = "none"
              /\ patch.commit = call.arg
              /\ patch.repo = <<>> /\ patch.repourl = <<>> /\ ~patch.in_mainline
              /\ message = NoMessage

\* the repositories of the list that have the commit, by their place in the list
Having(commit, cfg) == {i \in DOMAIN cfg.repos : Named(cfg.repos[i], commit) # {}}

\* the commit is in the repository at `path` only on a branch that is not pushed
LocalOnly(commit, path) ==
    \E o \in Named(path, commit) : o.hash \in RepoAt(path).unpublished

\* C20: when the first repository that has the commit has it only on an unpublished
\* local branch and force is not set, find_commit raises LocalCommitError and leaves
\* commit, repo and message as they were; with force set LocalCommitError is never
\* raised, find_commit answers true exactly when some repository has the commit, and
\* repo is then the first repository of the list that has it.
C20_LocalCommitPropagates ==
    call.op = "find_commit" =>
        LET has == Having(call.pre.commit, config)
            first == CHOOSE i \in has : \A j \in has : i <= j
        IN  IF ~call.pre.force
            THEN has # {} /\ LocalOnly(call.pre.commit, config.repos[first]) =>
                    /\ call.raised = "LocalCommitError"
                    /\ patch = call.pre
                    /\ message = call.prem
            ELSE /\ call.raised # "LocalCommitError"
                 /\ call.raised = "none" => (call.found <=> has # {})
                 /\ call.found => patch.repo = config.repos[first]

-----------------------------------------------------------------------------
(* The payload of a Patch under the operations that rebuild it: payloads   *)
(* as Patch.from_email takes them from a file, a text without a diff and   *)
(* an empty text among them                                                *)

\* the payloads a parsed patch file may hold
PayloadTexts ==
    { <<>>,
      Prose,
      Unlines(<<Prose>>),
      Unlines(<<Prose, OwnTag>>),
      Unlines(<<Prose, <<"-","-","-">>>>) \o get_diffstat(DiffOf({1, 2}, 1)) \o <<NL>>
          \o DiffOf({1, 2}, 1),
      Unlines(<<Prose>>) \o DiffOf({1}, 1),
      Unlines(<<Prose>>) \o rstrip(DiffOf({1}, 1)),
      DiffOf({2}, 1),
      Unlines(<<Prose>>) \o CombinedDiff }

InitPayload ==
    /\ message \in {set_payload(CommitMessage(<<>>), p) : p \in PayloadTexts}
    /\ config = DefaultConfig
    /\ call = NoCall
    /\ ncalls = 0
    /\ world = EmptyWorld
    /\ patch = NoPatch

HandleMerge ==
    /\ ncalls < MaxCalls
    /\ \E r \in {handle_merge(message)} :
          /\ message' = r.message
          /\ call' = [op |-> "handle_merge", pre |-> message, raised |-> r.raised]
    /\ ncalls' = ncalls + 1
    /\ UNCHANGED <<config, world, patch>>

NextPayload == HandleMerge \/ AddSignature \/ AddDiffstat \/ UpdateDiffstat \/ Filter

SpecPayload == InitPayload /\ [][NextPayload]_vars

\* the last call went as far as its set_payload: it is not one of the documented
\* no-ops (already signed, already has a diffstat) and did not stop on an error first
RebuiltPayload ==
    \/ call.op = "handle_merge" /\ call.raised = "none"
    \/ call.op = "add_signature" /\ ~AlreadySigned(call.pre.payload, config)
    \/ call.op = "add_diffstat" /\ ~HasSummaryLine(call.pre.payload)
    \/ call.op \in {"update_diffstat", "filter"}

\* C21: after every operation that rebuilds the payload (handle_merge, add_signature,
\* add_diffstat, update_diffstat, filter, whether filter returns or raises), for
\* every input payload, an empty one and one without a diff-start line included,
\* the payload of the message ends with a newline character.
C21_PayloadEndsWithNewline ==
    RebuiltPayload =>
        /\ message.payload # <<>>
        /\ message.payload[Len(message.payload)] = NL

-----------------------------------------------------------------------------
(* The fields of a parsed patch file under the tag/header editor:          *)
(* Patch.from_email, add_references, update_refs, add_mainline and filter  *)

\* self.message['References'] = refs adds a field as add_header does: __setitem__
\* of email.message.Message takes no earlier field of the name away
update_refs(m, refs) ==
    IF ~HasHeader(m, "References") THEN add_header(m, "References", refs)
    ELSE add_header(m, "References", refs)

add_mainline(m, tag) == put_header(m, "Patch-mainline", join(<<SP>>, tag))

MaxHeaderCalls == 3    \* method calls on one Patch

\* patch files that hold the managed fields already, and the files of ResolveEmails
HeaderEmails ==
    { Chars("Subject: Fix the frob\nGit-commit: ") \o Hash("c")
          \o Chars("\nReferences: bsc#2\nPatch-mainline: v6.0\n\nIt was off.\n---\n")
          \o DiffOf({1, 2}, 1),
      Chars("Subject: Fix the frob\nGit-commit: ") \o Hash("f")
          \o Chars(" (partial)\nPatch-filtered: x/\n\nIt was off.\n---\n")
          \o DiffOf({1, 2}, 1) }
    \cup ResolveEmails

InitHeaders ==
    /\ message = NoMessage
    /\ config = ExportConfig
    /\ call = NoCall
    /\ ncalls = 0
    /\ world = EmptyWorld
    /\ patch = NoPatch

\* the state after a header edit of the parsed message
Edited(op, arg, m, raised) ==
    /\ message' = m
    /\ call' = Called(op, arg, raised, FALSE, <<>>)
    /\ ncalls' = ncalls + 1
    /\ UNCHANGED <<config, world, patch>>

ReadEmail ==
    /\ ncalls < MaxHeaderCalls
    /\ \E msg \in HeaderEmails :
          \E r \in {from_email(Obj(patch, message), config, msg)} :
              Returned("from_email", msg, r, FALSE, <<>>)

AddRefs ==
    /\ ncalls < MaxHeaderCalls
    /\ message # NoMessage
    /\ \E refs \in {<< Chars("bsc#1") >>, << Chars("bsc#2"), Chars("bsc#1") >>} :
          Edited("add_references", refs, add_references(message, refs), "none")

UpdateRefs ==
    /\ ncalls < MaxHeaderCalls
    /\ message # NoMessage
    /\ \E refs \in {Chars("bsc#1"), Chars("bsc#2 bsc#3")} :
          Edited("update_refs", refs, update_refs(message, refs), "none")

AddMainline ==
    /\ ncalls < MaxHeaderCalls
    /\ message # NoMessage
    /\ \E tag \in {<< Chars("v6.1") >>, << Chars("Never,"), Chars("local") >>} :
          Edited("add_mainline", tag, add_mainline(message, tag), "none")

FilterFiles ==
    /\ ncalls < MaxHeaderCalls
    /\ message # NoMessage
    /\ \E files \in {<< Chars("A") >>, << Chars("d/") >>}, exclude \in BOOLEAN :
          \E r \in {filter(message, files, exclude)} :
              Edited("filter", [files |-> files, exclude |-> exclude], r.message, r.raised)

NextHeaders == ReadEmail \/ AddRefs \/ UpdateRefs \/ AddMainline \/ FilterFiles

SpecHeaders == InitHeaders /\ [][NextHeaders]_vars

\* the field names the editor manages
ManagedNames == {"References", "Patch-mainline", "Patch-filtered", "Git-commit", "Git-repo"}

\* C22: no duplicate header fields: after any sequence of header-editing operations
\* (add_references, update_refs, add_mainline, filter, from_email's Git-commit,
\* Git-repo and Patch-mainline edits) on a parsed message that starts without
\* duplicates, each of References, Patch-mainline, Patch-filtered, Git-commit and
\* Git-repo occurs at most once in the message, and an edit of a field that is
\* there leaves it at its place instead of adding a second field.
C22_NoDuplicateFields ==
    /\ \A name \in ManagedNames : HeaderCount(message, name) <= 1
    /\ call.op \in {"add_references", "update_refs", "add_mainline", "filter"} =>
          \A name \in ManagedNames :
              HasHeader(call.prem, name) =>
                  /\ HasHeader(message, name)
                  /\ FirstIdx(message, name) = FirstIdx(call.prem, name)

-----------------------------------------------------------------------------
(* The hunks of Patch.shrink_chunk against the clusters of changed lines   *)
(* of its input; lines are numbered from 1 here, from 0 in the source      *)

IsChangedLine(line) == StartsWith(line, <<"+">>) \/ StartsWith(line, <<"-">>)

ChangedLines(inp) == {i \in DOMAIN inp : IsChangedLine(inp[i])}

\* a cluster begins at a changed line that has no changed line among the 4 lines
\* above it: 3 context lines or fewer do not part two changed lines
ClusterFirsts(inp) ==
    {i \in ChangedLines(inp) : ChangedLines(inp) \cap ((i - 4)..(i - 1)) = {}}

\* the last changed line of the cluster that the changed line i belongs to
RECURSIVE ClusterLast(_, _)
ClusterLast(inp, i) ==
    LET near == ChangedLines(inp) \cap ((i + 1)..(i + 4))
    IN  IF near = {} THEN i
        ELSE ClusterLast(inp, CHOOSE j \in near : \A k \in near : k <= j)

\* the lines [lo, hi] of the input that the hunk of the cluster beginning at f is to
\* hold: from 3 lines above f, to 3 lines below the cluster's last changed line
ClusterSpan(inp, f) ==
    [lo |-> IF f - 3 < 1 THEN 1 ELSE f - 3,
     hi |-> IF ClusterLast(inp, f) + 3 > Len(inp) THEN Len(inp)
            ELSE ClusterLast(inp, f) + 3]

\* C23: every cluster of changed lines ('+' or '-') of the input of shrink_chunk
\* yields one emitted hunk, which begins at max(0, first_changed_index - 3) and ends
\* after the 3 context lines that follow the cluster's last changed line, or at the
\* end of the input when fewer than 3 context lines follow; hence every changed line
\* of the input is in the output, also when the chunk's last line is a changed line.
C23_HunkPerCluster ==
    call.op = "shrink_chunk" =>
        LET inp == splitlines(call.chunk)
            out == splitlines(call.text)
        IN  /\ Cardinality(HunkHeaders(out)) = Cardinality(ClusterFirsts(inp))
            /\ \A f \in ClusterFirsts(inp) :
                  \E h \in HunkHeaders(out) :
                      /\ ReadHunkHeader(out[h]).ok
                      /\ ReadHunkHeader(out[h]).old_start = ClusterSpan(inp, f).lo
                      /\ HunkLines(out, h) =
                             SubSeq(inp, ClusterSpan(inp, f).lo, ClusterSpan(inp, f).hi)
            /\ CountStarting(out, "+") = CountStarting(inp, "+")
            /\ CountStarting(out, "-") = CountStarting(inp, "-")

\* C28: the hunks shrink_chunk emits do not overlap: for any input chunk the line
\* ranges [start, end) of the input that the emitted hunks hold are pairwise
\* disjoint and strictly increasing, so no input line is written into two hunks,
\* however many context lines part two clusters of changes (4, 5 or 6 in particular).
C28_HunksDisjoint ==
    call.op = "shrink_chunk" =>
        LET out == splitlines(call.text)
        IN  \A g \in HunkHeaders(out), h \in HunkHeaders(out) :
                g < h => ReadHunkHeader(out[g]).old_start + Len(HunkLines(out, g))
                             <= ReadHunkHeader(out[h]).old_start

-----------------------------------------------------------------------------
(* Folding merges: Patch.handle_merge on payloads that hold a combined     *)
(* diff, as `git show` prints a merge, and on payloads that hold none      *)

MaxDataLines == 3    \* data lines of a combined-diff chunk

\* the lines that open the file section of a combined diff
CombinedHead ==
    << Chars("diff --cc A"), Chars("index 1234567,89abcde..fedcba9"),
       Chars("--- a/A"), Chars("+++ b/A") >>

CombinedMarker == Chars("@@@ -1,3 -1,3 +1,3 @@@")

\* data lines of a chunk: context, a line taken from one parent or the other, a line
\* the merge adds, and lines that lost their prefix columns with their white space
DataLines ==
    { Chars("  ctx"), Chars("- old"), Chars(" -old2"), Chars("++new"), Chars("+ add"),
      <<>>, Chars("x") }

\* what follows the chunk: nothing, the section of the next file, a second chunk
MergeTails ==
    { <<>>,
      Unlines(Section(FileNames[2])),
      Unlines(<< Chars("@@@ -9,2 -9,2 +9,2 @@@"), Chars("++more"), Chars("  end") >>) }

MergeBodies ==
    { <<>>, DiffOf({1}, 1), DiffOf({1, 2}, 1) }
    \cup
    UNION { { Unlines(CombinedHead) \o Unlines(<<CombinedMarker>>) \o Unlines(data) \o tail :
                data \in [1..n -> DataLines], tail \in MergeTails } :
            n \in 1..MaxDataLines }

\* the commit message above the diff; the second has a form feed in a line
MergeHeads == { Unlines(<<Prose>>), Chars("Fix the\ffrob\n") }

InitMerge ==
    /\ message \in {set_payload(CommitMessage(<<>>), h \o b) : h \in MergeHeads, b \in MergeBodies}
    /\ config = DefaultConfig
    /\ call = NoCall
    /\ ncalls = 0
    /\ world = EmptyWorld
    /\ patch = NoPatch

NextMerge == HandleMerge

SpecMerge == InitMerge /\ [][NextMerge]_vars

IsMarkerLine(line) == StartsWith(line, <<"@","@","@">>)

\* the data lines of ls: the lines after a line starting with `@@@` and before the
\* next diff-start line, other lines starting with `@@@` left out
ChunkData(ls) ==
    {i \in DOMAIN ls :
        /\ ~PATCH_START_RE(ls[i])
        /\ ~IsMarkerLine(ls[i])
        /\ \E j \in 1..(i - 1) :
              /\ IsMarkerLine(ls[j])
              /\ \A k \in (j + 1)..(i - 1) : ~PATCH_START_RE(ls[k])}

\* the second prefix column of a data line is a space or '+'
SecondColumnKept(line) == Len(line) >= 2 /\ line[2] \in {" ", "+"}

\* a data line with its second prefix column taken out
FirstColumnOnly(line) == <<line[1]>> \o From(line, 3)

\* C24: inside a combined-diff chunk (after a line starting with `@@@` and until
\* the next diff-start line) handle_merge keeps a data line, rewritten as its first
\* prefix column followed by the text after the second column, iff its second prefix
\* column is a space or '+', and drops every other data line; the `@@@` line itself
\* is not written; and every data line, an empty or one-character line included, is
\* processed without raising an error.
C24_CombinedChunkFolded ==
    call.op = "handle_merge" /\ ncalls = 1 =>
        LET inp == splitlines(body(call.pre.payload))
            out == splitlines(body(message.payload))
            kept == {i \in ChunkData(inp) : SecondColumnKept(inp[i])}
        IN  /\ call.raised = "none"
            /\ \A o \in DOMAIN out :
                  /\ ~IsMarkerLine(out[o])
                  /\ \/ PATCH_START_RE(out[o])
                     \/ IsHunkHeader(out[o])
                     \/ \E i \in kept : out[o] = FirstColumnOnly(inp[i])
                     \/ \E i \in DOMAIN inp \ ChunkData(inp) : out[o] = inp[i]
            /\ \A i \in kept :
                  IsChangedLine(inp[i]) =>
                      \E o \in DOMAIN out : out[o] = FirstColumnOnly(inp[i])

\* the text of a payload above its first diff-start line, character for character
HeaderRegion(payload) ==
    LET ls == splitlines(payload)
    IN  SubSeq(payload, 1, LineStart(ls, FirstStart(ls, 1)) - 1)

\* t is s, or s with the newline its last line lacks
SameUpToFinalNewline(s, t) == t = s \/ (s # <<>> /\ s[Len(s)] # NL /\ t = s \o <<NL>>)

\* C25: handle_merge never changes the header region of the payload; for a body
\* that has no line starting with `@@@` it reproduces the whole body line for line
\* in the original order, so that the payload after handle_merge equals the payload
\* before, up to the newline that ends the last line; and handle_merge run a second
\* time, on its own output, changes nothing.
C25_MergeFrame ==
    call.op = "handle_merge" /\ call.raised = "none" =>
        /\ SameUpToFinalNewline(HeaderRegion(call.pre.payload), HeaderRegion(message.payload))
        /\ (\A i \in DOMAIN splitlines(body(call.pre.payload)) :
               ~IsMarkerLine(splitlines(body(call.pre.payload))[i]))
              => SameUpToFinalNewline(call.pre.payload, message.payload)
        /\ ncalls = 2 => message = call.pre

\* the diff-start lines of a payload's body, in order
BoundaryLines(payload) == SelectSeq(splitlines(body(payload)), PATCH_START_RE)

\* C27: handle_merge preserves file boundaries: every diff-start line of the
\* original body (the `diff ...` line that opens the next file section, say) is in
\* the output body, in the original order, the line that ends a combined-diff chunk
\* included; so the body has as many file sections after the call as before it.
C27_MergeKeepsBoundaries ==
    call.op = "handle_merge" /\ ncalls = 1 /\ call.raised = "none" =>
        BoundaryLines(message.payload) = BoundaryLines(call.pre.payload)

-----------------------------------------------------------------------------
(* The text classifier on its own: Patch.header and Patch.body on payloads *)
(* made of lines that match _PATCH_START_RE and lines that nearly do       *)

MaxPayloadLines == 3    \* lines of a payload

ClassifierLines ==
    { Chars("--- a/f"), Chars("---"), Chars("---  x"), Chars("---\tx"), Chars("*** x"),
      Chars("Index: f"), Chars("diff -u"), Chars("index 1234567"), Chars("index 123456g"),
      Chars("a\fdiff -r"), <<>> }

\* the lines of a file, the last one with or without its newline
ClassifierPayloads ==
    UNION { UNION { {Unlines(ls), SubSeq(Unlines(ls), 1, Len(Unlines(ls)) - 1)} :
                    ls \in [1..n -> ClassifierLines] } :
            n \in 0..MaxPayloadLines }

InitClassify ==
    /\ message \in {set_payload(PlainMessage, p) : p \in ClassifierPayloads}
    /\ config = DefaultConfig
    /\ call = NoCall
    /\ ncalls = 0
    /\ world = EmptyWorld
    /\ patch = NoPatch

Header ==
    /\ call.op = "none"
    /\ call' = [op |-> "header", text |-> header(message.payload)]
    /\ ncalls' = ncalls + 1
    /\ UNCHANGED <<message, config, world, patch>>

Body ==
    /\ call.op = "none"
    /\ call' = [op |-> "body", text |-> body(message.payload)]
    /\ ncalls' = ncalls + 1
    /\ UNCHANGED <<message, config, world, patch>>

NextClassify == Header \/ Body

SpecClassify == InitClassify /\ [][NextClassify]_vars

\* the diff-start predicate in words: `---`, `***` or `Index:`, then a blank, then a
\* character that is not a blank; or `diff -`; or `index ` and 7 hex characters
DiffStart(line) ==
    \/ \E mark \in {Chars("---"), Chars("***"), Chars("Index:")} :
          /\ StartsWith(line, mark)
          /\ Len(line) >= Len(mark) + 2
          /\ line[Len(mark) + 1] \in WhiteSpace
          /\ line[Len(mark) + 2] \notin WhiteSpace
    \/ StartsWith(line, Chars("diff -"))
    \/ /\ StartsWith(line, Chars("index "))
       /\ Len(line) >= Len(Chars("index ")) + 7
       /\ \A k \in 1..7 : line[Len(Chars("index ")) + k] \in HexLower

\* the diff-start lines of a payload, by their place among its lines
StartLines(payload) ==
    {i \in DOMAIN splitlines(payload) : DiffStart(splitlines(payload)[i])}

\* C26: header() and body() split the lines of the payload at the first line that
\* matches the diff-start predicate: header() is exactly the lines strictly before
\* it, body() is that line and everything after it, so that header() + body() holds
\* all lines of the payload in order, none lost and none twice; no line of header()
\* matches the predicate, and body() is empty iff no line of the payload matches.
C26_ClassifierPartition ==
    LET ls == splitlines(message.payload)
        starts == StartLines(message.payload)
        first == IF starts = {} THEN Len(ls) + 1
                 ELSE CHOOSE i \in starts : \A j \in starts : i <= j
    IN  /\ call.op = "header" =>
              /\ splitlines(call.text) = SubSeq(ls, 1, first - 1)
              /\ call.text = Unlines(splitlines(call.text))
              /\ \A i \in DOMAIN splitlines(call.text) : ~DiffStart(splitlines(call.text)[i])
        /\ call.op = "body" =>
              /\ splitlines(call.text) = SubSeq(ls, first, Len(ls))
              /\ call.text = Unlines(splitlines(call.text))
              /\ call.text = <<>> <=> starts = {}
        /\ call.op \in {"header", "body"} =>
              splitlines(header(message.payload)) \o splitlines(body(message.payload)) = ls

\* body() was asked for a payload that has text above its first diff-start line and
\* lines below it
C26_Witness ==
    /\ call.op = "body"
    /\ call.text # <<>>
    /\ header(message.payload) # <<>>
    /\ Len(splitlines(call.text)) >= 2

-----------------------------------------------------------------------------
(* The sections of a diff body, line by line, against what Patch.filter    *)
(* writes for the sections it retains                                      *)

\* a section begins at a diff-start line that does not follow another one: the
\* `diff`, `index` and `---` lines of one file come in a row
SectionStarts(ls) ==
    {i \in DOMAIN ls : PATCH_START_RE(ls[i]) /\ (i = 1 \/ ~PATCH_START_RE(ls[i - 1]))}

\* the file name of the section that line i of ls is in, <<>> when it is in none
LineFile(ls, i) ==
    LET before == {s \in SectionStarts(ls) : s <= i}
        after == {s \in SectionStarts(ls) : s > i}
        lo == IF before = {} THEN 1 ELSE CHOOSE s \in before : \A t \in before : t <= s
        hi == IF after = {} THEN Len(ls) ELSE (CHOOSE s \in after : \A t \in after : s <= t) - 1
        named == {j \in lo..hi : PlusFilename(ls[j]) # <<>>}
    IN  IF before = {} \/ named = {} THEN <<>>
        ELSE PlusFilename(ls[CHOOSE j \in named : \A k \in named : j <= k])

\* the lines of ls from line i on that are in a section of a file in F
RECURSIVE SectionLines(_, _, _)
SectionLines(ls, i, F) ==
    IF i > Len(ls) THEN <<>>
    ELSE (IF LineFile(ls, i) \in F THEN <<ls[i]>> ELSE <<>>) \o SectionLines(ls, i + 1, F)

\* C29: Patch.filter keeps retained sections whole: every per-file section that is
\* retained is in the filtered body with all of its original lines (its `diff` and
\* `index` boundary lines, its `---` and `+++` lines and its hunks) in the original
\* order, the sections keep their relative order, and no line is in the filtered
\* body that was not in the original body: the filtered body is the original body
\* without the lines of the sections that were dropped.
C29_RetainedSectionsWhole ==
    call.op = "filter" /\ call.raised # "TypeError" =>
        splitlines(body(message.payload))
            = SectionLines(splitlines(body(call.pre.payload)), 1,
                           SectionFiles(message.payload))

-----------------------------------------------------------------------------
(* fixpatch.fix_patchfile: one patch file read, tagged, and written back   *)
(* under the name its Subject gives it.  A result is [ret, raised, world,  *)
(* message]: the value returned (-1 when an exception leaves the function  *)
(* instead), the world afterwards and the message of the Patch at the end. *)

\* the exceptions that `except (FileNotFoundError, PermissionError, PatchError)`
\* catches, of those the Patch methods raise
PatchErrors ==
    {"InvalidCommitIDError", "InvalidPatchError", "InvalidURLError", "EmptyCommitError",
     "LocalCommitError"}

\* str(e) of a PatchError raised on the message m
ErrorText(raised, m) ==
    CASE raised = "InvalidPatchError" -> Chars("Patch contains no Subject line")
      [] raised = "InvalidURLError" ->
             Chars("X-Git-Url provided but is not a URL (")
                 \o (IF HasHeader(m, "X-Git-Url") THEN GetHeader(m, "X-Git-Url") ELSE <<>>)
                 \o Chars(")")
      [] raised = "EmptyCommitError" -> Chars("commit is empty")
      [] raised = "LocalCommitError" ->
             Chars("Commit is not in the remote repository. Use -f to override.")
      [] OTHER ->
             Chars("Commit IDs must be hashes, not relative references. ")
                 \o Chars("HEAD and ^ are not allowed.")

\* the file a path names: './' in front of a relative path names the directory the
\* path starts in, so 'x' and './x' are one file
RECURSIVE Resolve(_)
Resolve(fn) == IF StartsWith(fn, Chars("./")) THEN Resolve(From(fn, 3)) ELSE fn

\* Path(fn).open('r').read()
ReadFile(w, fn) == (CHOOSE f \in w.files : f.name = Resolve(fn)).text

\* Path(fn).unlink()
Unlink(w, fn) == [w EXCEPT !.files = {f \in @ : f.name # Resolve(fn)}]

FixResult(ret, raised, w, m) == [ret |-> ret, raised |-> raised, world |-> w, message |-> m]

\* print(fn), the message written to fn, and pathname unlinked if fn is not the
\* same string
Stored(m, fn, pathname, w) ==
    FixResult(0, "none",
              IF fn # pathname
              THEN Unlink(WriteFile(Say(w, "stdout", fn), Resolve(fn), as_string(m)), pathname)
              ELSE WriteFile(Say(w, "stdout", fn), Resolve(fn), as_string(m)),
              m)

fix_patchfile(pathname, options, cfg, w) ==
    LET header_only == options.header_only \/ options.update_only
        no_rename == options.no_rename \/ options.update_only
        suffix == IF options.suffix THEN Chars(".patch") ELSE <<>>
        \* the world once the options are settled
        w1 == IF header_only /\ options.reference # <<>>
              THEN Say(w, "stderr",
                       Chars("References will not be updated in header-only mode."))
              ELSE w
        Failed(raised, m, w0) ==
            IF raised \in PatchErrors
            THEN FixResult(1, "none", Say(w0, "stderr", ErrorText(raised, m)), m)
            ELSE FixResult(-1, raised, w0, m)
        \* fn: Path(pathname).parent is a Path, and a Path is always true
        Renamed(m, fn) ==
            IF fn # pathname /\ FileExists(w1, Resolve(fn)) /\ ~options.force
            THEN FixResult(1, "none", Say(w1, "stderr", fn \o Chars(" already exists.")), m)
            ELSE Stored(m, fn, pathname, w1)
        Placed(m, pn) ==
            IF pn.raised # "none" THEN Failed(pn.raised, m, w1)
            ELSE Renamed(m, Parent(pathname) \o <<"/">> \o pn.name \o suffix)
        Tagged(m) ==
            IF options.dry_run THEN FixResult(0, "none", Say(w1, "stdout", as_string(m)), m)
            ELSE IF no_rename THEN Stored(m, pathname, pathname, w1)
            ELSE Placed(m, get_pathname(m, <<>>, <<>>, <<>>))
        Mainlined(m) ==
            Tagged(IF options.mainline # <<>> THEN add_mainline(m, options.mainline) ELSE m)
        Referenced(m) ==
            Mainlined(IF ~header_only /\ options.reference # <<>>
                      THEN add_references(m, options.reference) ELSE m)
        Signed(m) ==
            Referenced(IF ~(options.no_ack \/ header_only)
                       THEN add_signature(m, cfg, options.signed_off_by) ELSE m)
        Stated(m) ==
            Signed(IF ~(options.no_diffstat \/ header_only) THEN add_diffstat(m) ELSE m)
        NameOnly(m, pn) ==
            IF pn.raised # "none" THEN Failed(pn.raised, m, w)
            ELSE FixResult(0, "none", Say(w, "stdout", pn.name \o suffix), m)
        Parsed(r) ==
            IF r.raised # "none" THEN Failed(r.raised, r.patch.message, w)
            ELSE IF options.name_only
            THEN NameOnly(r.patch.message, get_pathname(r.patch.message, <<>>, <<>>, <<>>))
            ELSE Stated(r.patch.message)
        Made(p) ==
            IF p.raised # "none" THEN Failed(p.raised, p.patch.message, w)
            ELSE IF ~FileExists(w, Resolve(pathname))
            THEN FixResult(1, "none",
                           Say(w, "stderr", Chars("[Errno 2] No such file or directory: '")
                                                \o Resolve(pathname) \o <<"'">>),
                           p.patch.message)
            ELSE Parsed(from_email(p.patch, cfg, ReadFile(w, pathname)))
    IN  Made(Patch(<<>>, FALSE, cfg))

-----------------------------------------------------------------------------
(* Fixing: one run of fix_patchfile on a path of a directory that holds    *)
(* the patch file, and may hold a file of the name the patch is to get     *)

\* the patch files: one with its tags, one bare, one that git printed for a commit
\* of a repository, one with no Subject
FixTexts ==
    { Chars("Subject: Fix the frob\nGit-commit: ") \o Hash("c")
          \o Chars("\nReferences: bsc#2\nPatch-mainline: v6.0\n\nIt was off.\n---\n")
          \o SmallDiff,
      Chars("Subject: Fix the frob\n\nIt was off.\n---\n") \o SmallDiff,
      Chars("From: Al <al@y.org>\n\nIt was off.\n---\n") \o SmallDiff }

\* the paths given on the command line
FixPaths ==
    { Chars("old.patch"), Chars("./old.patch"), Chars("d/old.patch"),
      Chars("Fix-the-frob"), Chars("./Fix-the-frob"), Chars("d/Fix-the-frob"),
      Chars("Fix-the-frob.patch"), Chars("missing") }

\* what the directories hold beforehand: the patch under its old name, and under
\* the names it is to get
FixWorlds ==
    UNION { { [EmptyWorld EXCEPT !.files =
                  { [name |-> Chars("old.patch"), text |-> t],
                    [name |-> Chars("d/old.patch"), text |-> t] }],
              [EmptyWorld EXCEPT !.files =
                  { [name |-> Chars("old.patch"), text |-> t],
                    [name |-> Chars("d/old.patch"), text |-> t],
                    [name |-> Chars("Fix-the-frob"), text |-> t],
                    [name |-> Chars("d/Fix-the-frob"), text |-> t] }],
              [EmptyWorld EXCEPT !.files =
                  { [name |-> Chars("old.patch"), text |-> t],
                    [name |-> Chars("Fix-the-frob.patch"), text |-> t] }] } :
            t \in FixTexts }

FixDefaults ==
    [name_only |-> FALSE, update_only |-> FALSE, header_only |-> FALSE, no_ack |-> FALSE,
     no_diffstat |-> FALSE, no_rename |-> FALSE, dry_run |-> FALSE, force |-> FALSE,
     suffix |-> FALSE, signed_off_by |-> FALSE, reference |-> <<>>, mainline |-> <<>>]

\* the command lines tried
FixOptions ==
    { FixDefaults,
      [FixDefaults EXCEPT !.force = TRUE],
      [FixDefaults EXCEPT !.suffix = TRUE],
      [FixDefaults EXCEPT !.suffix = TRUE, !.force = TRUE, !.no_ack = TRUE],
      [FixDefaults EXCEPT !.no_rename = TRUE, !.signed_off_by = TRUE],
      [FixDefaults EXCEPT !.update_only = TRUE, !.reference = << Chars("bsc#1") >>],
      [FixDefaults EXCEPT !.header_only = TRUE, !.mainline = << Chars("v6.1") >>],
      [FixDefaults EXCEPT !.dry_run = TRUE, !.no_diffstat = TRUE],
      [FixDefaults EXCEPT !.name_only = TRUE, !.suffix = TRUE],
      [FixDefaults EXCEPT !.reference = << Chars("bsc#1") >>, !.no_diffstat = TRUE,
                          !.force = TRUE] }

InitFix ==
    /\ message = NoMessage
    /\ config = ExportConfig
    /\ call = NoCall
    /\ ncalls = 0
    /\ world \in FixWorlds
    /\ patch = NoPatch

FixPatchfile ==
    /\ call.op = "none"
    /\ \E pathname \in FixPaths, options \in FixOptions :
          \E r \in {fix_patchfile(pathname, options, config, world)} :
              /\ world' = r.world
              /\ message' = r.message
              /\ call' = [op |-> "fix_patchfile", pathname |-> pathname, options |-> options,
                          pre |-> world, ret |-> r.ret, raised |-> r.raised]
    /\ ncalls' = ncalls + 1
    /\ UNCHANGED <<config, patch>>

NextFix == FixPatchfile

SpecFix == InitFix /\ [][NextFix]_vars

\* the names of the files of a world
FileNamesOf(w) == {f.name : f \in w.files}

\* C30: fix_patchfile never loses the patch: in every run without dry-run and
\* name-only that returns 0, a file holding the fixed patch exists at the printed
\* output name when the function returns; the original file is gone only when the
\* new file has been written and is a different file, also when the derived name
\* denotes the same file as the input pathname (an input path without a directory
\* part, say); and when the run returns 1, neither file is modified or removed.
C30_PatchNeverLost ==
    (call.op = "fix_patchfile" /\ ~call.options.dry_run /\ ~call.options.name_only) =>
        /\ call.ret = 0 =>
              /\ Len(world.stdout) = Len(call.pre.stdout) + 1
              /\ [name |-> Resolve(world.stdout[Len(world.stdout)]),
                  text |-> as_string(message) \o <<NL>>] \in world.files
              /\ Resolve(call.pathname) \notin FileNamesOf(world) =>
                    Resolve(world.stdout[Len(world.stdout)]) # Resolve(call.pathname)
        /\ call.ret = 1 => world.files = call.pre.files
        /\ FileNamesOf(call.pre) \ {Resolve(call.pathname)} \subseteq FileNamesOf(world)

====
